---- MODULE Spec2Model ----
(***************************************************************************)
(* Model of GCodeSimulator (G-code tool path simulator, XY axis): the      *)
(* motion-command parser parseGcode, the playback engine                   *)
(* (startSimulation / togglePause / reset / animate), the view transform  *)
(* (calculateView) and the DXF import (dxfToGcode).                        *)
(*                                                                         *)
(* Text is modelled character by character: a line is a sequence of       *)
(* one-character strings and a text is a sequence of lines (the result of  *)
(* split('\n')).  JavaScript numbers are modelled as tagged values: a     *)
(* finite number in fixed point (Scale units per millimetre), NaN,         *)
(* Infinity or -Infinity.                                                  *)
(***************************************************************************)
EXTENDS Integers, Sequences, FiniteSets, TLC

(***************************************************************************)
(* Bounds of the model.                                                    *)
(***************************************************************************)
\* fixed-point resolution: units per millimetre
Scale == 100
\* longest text (in lines) given to the parser in ParseSpec
MaxLines == 2
\* longest text (in lines) loaded while the playback engine is exercised
MaxPlayLines == 2
\* the speed slider takes the values 0, 25, ..., 25 * MaxSpeedLevel
MaxSpeedLevel == 2
\* most vertices of a polyline of a DXF file
MaxVertices == 2

(***************************************************************************)
(* JavaScript numbers.                                                     *)
(***************************************************************************)
Fin(n) == [k |-> "fin", v |-> n]
NaN == [k |-> "nan", v |-> 0]
PosInf == [k |-> "inf", v |-> 0]
NegInf == [k |-> "ninf", v |-> 0]

IsNaN(a) == a.k = "nan"
IsFinite(a) == a.k = "fin"

\* a <= b as JavaScript evaluates it: false as soon as one side is NaN
NumLeq(a, b) ==
    /\ ~IsNaN(a)
    /\ ~IsNaN(b)
    /\ \/ a.k = "ninf"
       \/ b.k = "inf"
       \/ a.k = "fin" /\ b.k = "fin" /\ a.v <= b.v

MathMin(a, b) ==
    IF IsNaN(a) \/ IsNaN(b) THEN NaN
    ELSE IF NumLeq(a, b) THEN a ELSE b

MathMax(a, b) ==
    IF IsNaN(a) \/ IsNaN(b) THEN NaN
    ELSE IF NumLeq(a, b) THEN b ELSE a

(***************************************************************************)
(* Characters and strings.                                                 *)
(***************************************************************************)
Digits == {"0", "1", "2", "3", "4", "5", "6", "7", "8", "9"}

DigitVal(c) ==
    CASE c = "0" -> 0 [] c = "1" -> 1 [] c = "2" -> 2 [] c = "3" -> 3
      [] c = "4" -> 4 [] c = "5" -> 5 [] c = "6" -> 6 [] c = "7" -> 7
      [] c = "8" -> 8 [] c = "9" -> 9

\* the /i flag of the regular expressions
Upper(c) ==
    CASE c = "g" -> "G" [] c = "x" -> "X" [] c = "y" -> "Y" [] c = "f" -> "F"
      [] OTHER -> c

RECURSIVE TrimLeft(_)
TrimLeft(s) ==
    IF s = <<>> THEN s
    ELSE IF Head(s) = " " THEN TrimLeft(Tail(s)) ELSE s

RECURSIVE TrimRight(_)
TrimRight(s) ==
    IF s = <<>> THEN s
    ELSE IF s[Len(s)] = " " THEN TrimRight(SubSeq(s, 1, Len(s) - 1)) ELSE s

\* String.prototype.trim
Trim(s) == TrimRight(TrimLeft(s))

\* line.split(';')[0]
RECURSIVE BeforeSemicolon(_)
BeforeSemicolon(s) ==
    IF s = <<>> THEN s
    ELSE IF Head(s) = ";" THEN <<>>
    ELSE <<Head(s)>> \o BeforeSemicolon(Tail(s))

\* the longest run of characters of the class chars that starts at s[p]
RECURSIVE Run(_, _, _)
Run(s, p, chars) ==
    IF p > Len(s) \/ s[p] \notin chars THEN <<>>
    ELSE <<s[p]>> \o Run(s, p + 1, chars)

RECURSIVE IntVal(_)
IntVal(ds) ==
    IF ds = <<>> THEN 0
    ELSE 10 * IntVal(SubSeq(ds, 1, Len(ds) - 1)) + DigitVal(ds[Len(ds)])

RECURSIVE Pow10(_)
Pow10(n) == IF n = 0 THEN 1 ELSE 10 * Pow10(n - 1)

\* parseFloat on a token of the class [-\d.]: an optional sign, digits, an
\* optional fraction; the longest prefix that is a number, NaN when none is
ParseFloat(tok) ==
    LET neg == tok # <<>> /\ tok[1] = "-"
        body == IF neg THEN Tail(tok) ELSE tok
        intPart == Run(body, 1, Digits)
        rest == SubSeq(body, Len(intPart) + 1, Len(body))
        fracPart == IF rest # <<>> /\ rest[1] = "." THEN Run(rest, 2, Digits)
                    ELSE <<>>
        mag == IntVal(intPart) * Scale
               + (IntVal(fracPart) * Scale) \div Pow10(Len(fracPart))
    IN  IF intPart = <<>> /\ fracPart = <<>> THEN NaN
        ELSE Fin(IF neg THEN 0 - mag ELSE mag)

(***************************************************************************)
(* The regular expressions of parseGcode.                                  *)
(***************************************************************************)
\* codePart.match(/G0\s*/i) and codePart.match(/G1\s*/i): the letter G
\* followed by the digit, anywhere in the code part
WordMatch(code, letter, digit) ==
    \E p \in 1..(Len(code) - 1) : Upper(code[p]) = letter /\ code[p + 1] = digit

g0Match(code) == WordMatch(code, "G", "0")
g1Match(code) == WordMatch(code, "G", "1")

\* codePart.match(/L([chars]+)/i): the capture group of the leftmost match,
\* <<>> when there is no match (a match captures at least one character)
FieldMatch(code, letter, chars) ==
    LET P == {p \in 1..(Len(code) - 1) :
                 Upper(code[p]) = letter /\ code[p + 1] \in chars}
        first == CHOOSE p \in P : \A q \in P : p <= q
    IN  IF P = {} THEN <<>> ELSE Run(code, first + 1, chars)

CoordChars == Digits \cup {"-", "."}
FeedChars == Digits \cup {"."}

xMatch(code) == FieldMatch(code, "X", CoordChars)
yMatch(code) == FieldMatch(code, "Y", CoordChars)
fMatch(code) == FieldMatch(code, "F", FeedChars)

\* the first test of the loop body: comments and empty lines are skipped
IsSkipped(line) ==
    \/ line = <<>>
    \/ Head(line) \in {"(", ";", "%"}

\* the code part of a raw line, <<>> when the line is skipped
CodePart(raw) ==
    LET line == Trim(raw)
    IN  IF IsSkipped(line) THEN <<>> ELSE Trim(BeforeSemicolon(line))

(***************************************************************************)
(* parseGcode: the loop over the lines (source lines 443-513).             *)
(***************************************************************************)
\* the locals and fields parseGcode sets before its loop
ParseStart ==
    [commands |-> <<>>,
     currentX |-> Fin(0), currentY |-> Fin(0), currentFeedRate |-> Fin(0),
     g0Count |-> 0, g1Count |-> 0,
     minX |-> PosInf, maxX |-> NegInf, minY |-> PosInf, maxY |-> NegInf]

\* FieldValue without the carry-forward: an absent field reads 0
FieldValueNoCarry(tok, running) == IF tok # <<>> THEN ParseFloat(tok) ELSE Fin(0)

\* the value a field of the line leaves in its running variable
FieldValue(tok, running) == IF tok # <<>> THEN ParseFloat(tok) ELSE running

\* the end of an iteration on a recognized line: the bounding box is
\* updated with the resolved point and the command is stored
StoreCommand(acc, isRapid, cx, cy, cf, n) ==
    [commands |-> Append(acc.commands,
        [type |-> IF isRapid THEN "G0" ELSE "G1",
         x |-> cx, y |-> cy, feedRate |-> cf, lineNumber |-> n]),
     currentX |-> cx, currentY |-> cy, currentFeedRate |-> cf,
     g0Count |-> IF isRapid THEN acc.g0Count + 1 ELSE acc.g0Count,
     g1Count |-> IF isRapid THEN acc.g1Count ELSE acc.g1Count + 1,
     minX |-> MathMin(acc.minX, cx), maxX |-> MathMax(acc.maxX, cx),
     minY |-> MathMin(acc.minY, cy), maxY |-> MathMax(acc.maxY, cy)]

\* the iteration on a line whose code part is codePart (<<>>: skipped)
ParseCode(acc, codePart, n) ==
    IF codePart = <<>> THEN acc
    ELSE IF ~(g0Match(codePart) \/ g1Match(codePart)) THEN acc
    ELSE StoreCommand(acc, g0Match(codePart),
                      FieldValue(xMatch(codePart), acc.currentX),
                      FieldValue(yMatch(codePart), acc.currentY),
                      FieldValue(fMatch(codePart), acc.currentFeedRate), n)

\* ParseLine tagging the command with the 0-based index i instead of i + 1
ParseLineZeroBased(acc, raw, n) == ParseCode(acc, CodePart(raw), n - 1)

\* one iteration of the loop, for the raw line with 1-based index n
ParseLine(acc, raw, n) == ParseCode(acc, CodePart(raw), n)

\* the loop from line n on.  Its second condition always holds, a line
\* adding at most one command: it has TLC compute the accumulator at every
\* iteration instead of nesting the iterations of a long text
RECURSIVE ParseLoop(_, _, _)
ParseLoop(lines, n, acc) ==
    IF n <= Len(lines) /\ Len(acc.commands) < n
    THEN ParseLoop(lines, n + 1, ParseLine(acc, lines[n], n))
    ELSE acc

\* the empty-input default of the bounding box
HandleEmpty(acc) ==
    IF Len(acc.commands) = 0
    THEN [acc EXCEPT !.minX = Fin(0), !.maxX = Fin(100 * Scale),
                     !.minY = Fin(0), !.maxY = Fin(100 * Scale)]
    ELSE acc

\* the loop followed by the empty-input default
ParseText(lines) == HandleEmpty(ParseLoop(lines, 1, ParseStart))

(***************************************************************************)
(* The texts the model feeds to the parser.  A text is the sequence of    *)
(* lines gcodeText.split('\n') yields, so it always has at least one line. *)
(***************************************************************************)
\* "G0 X5"
LnRapidX5 == <<"G", "0", " ", "X", "5">>
\* "G1 Y10 F200"
LnLinearY10F200 == <<"G", "1", " ", "Y", "1", "0", " ", "F", "2", "0", "0">>
\* "G17 ; XY"
LnG17 == <<"G", "1", "7", " ", ";", " ", "X", "Y">>
\* "G21"
LnG21 == <<"G", "2", "1">>
\* "G90"
LnG90 == <<"G", "9", "0">>
\* "M30"
LnM30 == <<"M", "3", "0">>
\* "G0 X-"
LnRapidXMinus == <<"G", "0", " ", "X", "-">>
\* "G1 Y."
LnLinearYDot == <<"G", "1", " ", "Y", ".">>
\* "G1 X3 Y4"
LnLinearXY == <<"G", "1", " ", "X", "3", " ", "Y", "4">>
\* "g1 x-1.5y2f.5"
LnLower == <<"g", "1", " ", "x", "-", "1", ".", "5", "y", "2", "f", ".", "5">>
\* " G0 Z5 ; Pen up"
LnPenUp == <<" ", "G", "0", " ", "Z", "5", " ", ";", " ", "P", "e", "n", " ", "u", "p">>
\* "; G0 X9"
LnComment == <<";", " ", "G", "0", " ", "X", "9">>
\* "(G1 X7)"
LnParen == <<"(", "G", "1", " ", "X", "7", ")">>
\* "%"
LnPercent == <<"%">>
\* ""
LnEmpty == <<>>

ParseLines ==
    {LnRapidX5, LnLinearY10F200, LnG17, LnG21, LnG90, LnM30, LnRapidXMinus,
     LnLinearYDot, LnLinearXY, LnLower, LnPenUp, LnComment, LnParen,
     LnPercent, LnEmpty}

\* the lines of the view specification: envelopes that are a point, a
\* horizontal or vertical segment, a rectangle, NaN, or the default
ViewLines == {LnRapidX5, LnLinearXY, LnLinearY10F200, LnRapidXMinus, LnM30}

PlayLines == {LnRapidX5, LnLinearXY, LnRapidXMinus, LnM30}

\* all texts of 1..n lines over a set of lines
TextsOver(lines, n) == UNION {[1..k -> lines] : k \in 1..n}

ParseTexts == TextsOver(ParseLines, MaxLines)
PlayTexts == TextsOver(PlayLines, MaxPlayLines)

\* the sample program of loadSampleGcode, abridged to its kinds of line: the
\* header, the G17 setting line, a rapid to the start and a cut
sampleGcode == <<LnPercent, LnParen, LnG17, LnRapidX5, LnLinearXY, LnM30>>

\* the values of the speed slider
Speeds == {25 * k : k \in 0..MaxSpeedLevel}

(***************************************************************************)
(* State: the fields of the GCodeSimulator object, the text area, the     *)
(* status and statistics elements it writes, and the animation frames the *)
(* browser holds for it.                                                   *)
(***************************************************************************)
VARIABLES
    gcodeInput,     \* value of the text area: the lines of the program
    commands,       \* this.commands
    currentIndex,   \* this.currentIndex
    isRunning,      \* this.isRunning
    isPaused,       \* this.isPaused
    animationId,    \* this.animationId, 0 for null
    toolX, toolY,   \* this.toolX, this.toolY
    feedRate,       \* this.feedRate
    minX, maxX, minY, maxY,   \* the bounding box
    speed,          \* this.speed
    pathHistory,    \* this.pathHistory
    status,         \* text of the status indicator (updateStatus)
    statG0, statG1, \* the per-kind counts parseGcode displays
    pending,        \* frames requested and neither fired nor cancelled
    scale, offsetX, offsetY,     \* this.scale, this.offsetX, this.offsetY
    canvasWidth, canvasHeight,   \* this.canvas.width, this.canvas.height
    dxfReader,      \* the FileReader of loadDxfFile: its readyState and
                    \* the lines of the file it reads
    resets,         \* history variable: the reset clicks in a row just made,
                    \* counted up to 2
    interrupted,    \* history variable: the last step was a reload that
                    \* found the engine running or paused
    ignored         \* history variable: "start" when the last step was a
                    \* startSimulation that found no command, "pause" when
                    \* it was a togglePause on an engine neither running nor
                    \* paused, "none" otherwise

vars ==
    <<gcodeInput, commands, currentIndex, isRunning, isPaused, animationId,
      toolX, toolY, feedRate, minX, maxX, minY, maxY, speed, pathHistory,
      status, statG0, statG1, pending, scale, offsetX, offsetY, canvasWidth,
      canvasHeight, dxfReader, resets, interrupted, ignored>>

\* the simulator and its surroundings as one record
Self ==
    [gcodeInput |-> gcodeInput, commands |-> commands,
     currentIndex |-> currentIndex, isRunning |-> isRunning,
     isPaused |-> isPaused, animationId |-> animationId,
     toolX |-> toolX, toolY |-> toolY, feedRate |-> feedRate,
     minX |-> minX, maxX |-> maxX, minY |-> minY, maxY |-> maxY,
     speed |-> speed, pathHistory |-> pathHistory, status |-> status,
     statG0 |-> statG0, statG1 |-> statG1, pending |-> pending,
     scale |-> scale, offsetX |-> offsetX, offsetY |-> offsetY,
     canvasWidth |-> canvasWidth, canvasHeight |-> canvasHeight,
     dxfReader |-> dxfReader]

\* the step that leaves the simulator and its surroundings as the record s,
\* which is computed once
Becomes(s) ==
    \E r \in {s} :
        /\ gcodeInput' = r.gcodeInput
        /\ commands' = r.commands
        /\ currentIndex' = r.currentIndex
        /\ isRunning' = r.isRunning
        /\ isPaused' = r.isPaused
        /\ animationId' = r.animationId
        /\ toolX' = r.toolX
        /\ toolY' = r.toolY
        /\ feedRate' = r.feedRate
        /\ minX' = r.minX
        /\ maxX' = r.maxX
        /\ minY' = r.minY
        /\ maxY' = r.maxY
        /\ speed' = r.speed
        /\ pathHistory' = r.pathHistory
        /\ status' = r.status
        /\ statG0' = r.statG0
        /\ statG1' = r.statG1
        /\ pending' = r.pending
        /\ scale' = r.scale
        /\ offsetX' = r.offsetX
        /\ offsetY' = r.offsetY
        /\ canvasWidth' = r.canvasWidth
        /\ canvasHeight' = r.canvasHeight
        /\ dxfReader' = r.dxfReader

\* the fields the constructor sets before it calls init()
Constructed ==
    [gcodeInput |-> sampleGcode, commands |-> <<>>, currentIndex |-> 0,
     isRunning |-> FALSE, isPaused |-> FALSE, animationId |-> 0,
     toolX |-> Fin(0), toolY |-> Fin(0), feedRate |-> Fin(0),
     minX |-> Fin(0), maxX |-> Fin(0), minY |-> Fin(0), maxY |-> Fin(0),
     speed |-> 50, pathHistory |-> <<>>, status |-> "Ready",
     statG0 |-> 0, statG1 |-> 0, pending |-> {},
     scale |-> [k |-> "fin", n |-> 1, d |-> 1],
     offsetX |-> [k |-> "fin", n |-> 0, d |-> 1],
     offsetY |-> [k |-> "fin", n |-> 0, d |-> 1],
     dxfReader |-> [readyState |-> "EMPTY", result |-> <<>>]]

(***************************************************************************)
(* The browser's animation frames.  A frame id is an opaque handle: the   *)
(* program only stores the last one and passes it to cancelAnimationFrame. *)
(* The model reuses a handle once it is neither pending nor stored, which  *)
(* the program cannot tell from a fresh one.                               *)
(***************************************************************************)
FreshFrame(s) ==
    CHOOSE id \in 1..(Cardinality(s.pending) + 2) :
        /\ id \notin s.pending
        /\ id # s.animationId
        /\ \A other \in 1..(id - 1) : other \in s.pending \/ other = s.animationId

\* this.animationId = requestAnimationFrame(() => this.animate())
requestAnimationFrame(s) ==
    LET id == FreshFrame(s)
    IN  [s EXCEPT !.animationId = id, !.pending = s.pending \cup {id}]

\* if (this.animationId) cancelAnimationFrame(this.animationId)
cancelAnimationFrame(s) ==
    IF s.animationId # 0
    THEN [s EXCEPT !.pending = s.pending \ {s.animationId}]
    ELSE s

(***************************************************************************)
(* reset                                                                   *)
(***************************************************************************)
StartEntry == [x |-> Fin(0), y |-> Fin(0), type |-> "start"]

\* reset without the cancellation of the pending frame
resetKeepsFrame(s) ==
    [s EXCEPT !.isRunning = FALSE,
              !.isPaused = FALSE,
              !.currentIndex = 0,
              !.toolX = Fin(0),
              !.toolY = Fin(0),
              !.feedRate = Fin(0),
              !.pathHistory = <<StartEntry>>,
              !.status = "Ready"]

\* reset pushing the start entry onto the history instead of replacing it
resetPushesStart(s) ==
    cancelAnimationFrame(
        [s EXCEPT !.isRunning = FALSE,
                  !.isPaused = FALSE,
                  !.currentIndex = 0,
                  !.toolX = Fin(0),
                  !.toolY = Fin(0),
                  !.feedRate = Fin(0),
                  !.pathHistory = Append(s.pathHistory, StartEntry),
                  !.status = "Ready"])

reset(s) ==
    cancelAnimationFrame(
        [s EXCEPT !.isRunning = FALSE,
                  !.isPaused = FALSE,
                  !.currentIndex = 0,
                  !.toolX = Fin(0),
                  !.toolY = Fin(0),
                  !.feedRate = Fin(0),
                  !.pathHistory = <<StartEntry>>,
                  !.status = "Ready"])

(***************************************************************************)
(* The view: calculateView, worldToCanvas and canvasToWorld.  Their        *)
(* arithmetic is modelled on exact fractions n/d, d > 0, in lowest terms,  *)
(* together with NaN, Infinity and -Infinity, which the divisions of       *)
(* calculateView and canvasToWorld produce.                                *)
(***************************************************************************)
\* the integer part of a quotient, rounded toward zero
Quot(a, b) == IF a < 0 THEN 0 - ((0 - a) \div b) ELSE a \div b

RECURSIVE Gcd(_, _)
Gcd(a, b) == IF b = 0 THEN a ELSE Gcd(b, a % b)

Abs(n) == IF n < 0 THEN 0 - n ELSE n

\* the fraction n/d, d > 0, in lowest terms
Lowest(n, d, g) == [k |-> "fin", n |-> Quot(n, g), d |-> d \div g]

Rat(n, d) == Lowest(n, d, Gcd(Abs(n), d))

RNaN == [k |-> "nan", n |-> 0, d |-> 1]
RInf == [k |-> "inf", n |-> 0, d |-> 1]
RNegInf == [k |-> "ninf", n |-> 0, d |-> 1]

\* a coordinate of the parser, held in units of 1/Scale, as a fraction
ToRat(a) == IF a.k = "fin" THEN Rat(a.v, Scale) ELSE [k |-> a.k, n |-> 0, d |-> 1]

\* -1, 0 or 1 as a is below, at or above zero; a is not NaN
Sign(a) ==
    CASE a.k = "inf" -> 1
      [] a.k = "ninf" -> 0 - 1
      [] OTHER -> IF a.n > 0 THEN 1 ELSE IF a.n < 0 THEN 0 - 1 ELSE 0

\* Infinity or -Infinity by the sign sgn
Signed(sgn) == IF sgn > 0 THEN RInf ELSE RNegInf

RNeg(a) ==
    CASE a.k = "fin" -> Rat(0 - a.n, a.d)
      [] a.k = "inf" -> RNegInf
      [] a.k = "ninf" -> RInf
      [] OTHER -> RNaN

\* the sum of two fractions, g the greatest common divisor of their
\* denominators
FinAdd(a, b, g) ==
    Rat(a.n * (b.d \div g) + b.n * (a.d \div g), (a.d \div g) * b.d)

\* the product of two fractions, g and h the greatest common divisors of
\* the numerator of each and the denominator of the other
FinMul(a, b, g, h) ==
    Rat(Quot(a.n, g) * Quot(b.n, h), (a.d \div h) * (b.d \div g))

\* 1 / b for a fraction b that is not 0
FinInv(b) == [k |-> "fin", n |-> Sign(b) * b.d, d |-> Abs(b.n)]

\* a + b
RAdd(a, b) ==
    IF a.k = "nan" \/ b.k = "nan" THEN RNaN
    ELSE IF a.k = "fin" /\ b.k = "fin" THEN FinAdd(a, b, Gcd(a.d, b.d))
    ELSE IF a.k = "fin" THEN b
    ELSE IF b.k = "fin" \/ a.k = b.k THEN a
    ELSE RNaN

\* a - b
RSub(a, b) == RAdd(a, RNeg(b))

\* a * b
RMul(a, b) ==
    IF a.k = "nan" \/ b.k = "nan" THEN RNaN
    ELSE IF a.k = "fin" /\ b.k = "fin"
    THEN FinMul(a, b, Gcd(Abs(a.n), b.d), Gcd(Abs(b.n), a.d))
    ELSE IF Sign(a) = 0 \/ Sign(b) = 0 THEN RNaN
    ELSE Signed(Sign(a) * Sign(b))

\* a / b, the zero divisors of the program being +0
RDiv(a, b) ==
    IF a.k = "nan" \/ b.k = "nan" THEN RNaN
    ELSE IF a.k # "fin"
    THEN IF b.k # "fin" THEN RNaN
         ELSE Signed(Sign(a) * (IF Sign(b) < 0 THEN 0 - 1 ELSE 1))
    ELSE IF b.k # "fin" THEN Rat(0, 1)
    ELSE IF b.n = 0
    THEN IF a.n = 0 THEN RNaN ELSE Signed(Sign(a))
    ELSE RMul(a, FinInv(b))

\* a <= b; neither is NaN
RLeq(a, b) ==
    IF a.k = "ninf" \/ b.k = "inf" THEN TRUE
    ELSE IF a.k = "inf" \/ b.k = "ninf" THEN FALSE
    ELSE Sign(RSub(a, b)) <= 0

\* Math.min on these values
RMin(a, b) ==
    IF a.k = "nan" \/ b.k = "nan" THEN RNaN
    ELSE IF RLeq(a, b) THEN a ELSE b

\* this.padding
padding == 60

\* the size of the canvas in the playback and parser specifications
DisplayWidth == 320
DisplayHeight == 240

\* the canvas sizes of the view specification: narrower than the two
\* paddings, exactly the two paddings, wider
CanvasWidths == {padding * 2 - 20, padding * 2, DisplayWidth}
CanvasHeights == {padding * 2 - 20, padding * 2, DisplayHeight}

\* setupCanvas and the resize handler: the canvas takes the size w by h
\* that the wrapper element leaves it
setupCanvas(s, w, h) == [canvasWidth |-> w, canvasHeight |-> h] @@ s

bboxWidth(s) == RSub(ToRat(s.maxX), ToRat(s.minX))
bboxHeight(s) == RSub(ToRat(s.maxY), ToRat(s.minY))

\* Math.min(scaleX, scaleY) * 0.9
fitScale(s) ==
    RMul(RMin(RDiv(Rat(s.canvasWidth - padding * 2, 1), bboxWidth(s)),
              RDiv(Rat(s.canvasHeight - padding * 2, 1), bboxHeight(s))),
         Rat(9, 10))

\* padding + (size - padding * 2 - extent * sc) / 2 - low * sc, sc the scale
centreOffset(size, extent, low, sc) ==
    RSub(RAdd(Rat(padding, 1),
              RDiv(RSub(Rat(size - padding * 2, 1), RMul(extent, sc)),
                   Rat(2, 1))),
         RMul(low, sc))

\* the assignments of calculateView once the scale is computed
Fitted(s, sc) ==
    [s EXCEPT !.scale = sc,
              !.offsetX = centreOffset(s.canvasWidth, bboxWidth(s),
                                       ToRat(s.minX), sc),
              !.offsetY = centreOffset(s.canvasHeight, bboxHeight(s),
                                       ToRat(s.minY), sc)]

\* calculateView returning early as soon as one dimension is 0
calculateViewEither(s) ==
    IF bboxWidth(s) = Rat(0, 1) \/ bboxHeight(s) = Rat(0, 1) THEN s
    ELSE Fitted(s, fitScale(s))

calculateView(s) ==
    IF bboxWidth(s) = Rat(0, 1) /\ bboxHeight(s) = Rat(0, 1) THEN s
    ELSE Fitted(s, fitScale(s))

\* worldToCanvas(x, y), p = <<x, y>>
worldToCanvas(s, p) ==
    <<RAdd(RMul(p[1], s.scale), s.offsetX),
      RSub(Rat(s.canvasHeight, 1), RAdd(RMul(p[2], s.scale), s.offsetY))>>

\* canvasToWorld(canvasX, canvasY), c = <<canvasX, canvasY>>
canvasToWorld(s, c) ==
    <<RDiv(RSub(c[1], s.offsetX), s.scale),
      RDiv(RSub(RSub(Rat(s.canvasHeight, 1), c[2]), s.offsetY), s.scale)>>

(***************************************************************************)
(* parseGcode, on the text of the text area                                *)
(***************************************************************************)
\* ParseText of every text of the model, evaluated once
Parsed == [t \in ParseTexts \cup PlayTexts \cup {sampleGcode} |-> ParseText(t)]

\* the fields and statistics parseGcode sets from the result r of its loop
Loaded(s, r) ==
    [s EXCEPT !.commands = r.commands,
              !.minX = r.minX, !.maxX = r.maxX,
              !.minY = r.minY, !.maxY = r.maxY,
              !.statG0 = r.g0Count, !.statG1 = r.g1Count]

\* Install without the closing call of reset
InstallKeepsPlayback(s, r) == calculateView(Loaded(s, r))

\* parseGcode once its loop has given r: the fields, then calculateView,
\* then reset
Install(s, r) == reset(calculateView(Loaded(s, r)))

parseGcode(s) == Install(s, Parsed[s.gcodeInput])

(***************************************************************************)
(* DXF import: dxfToGcode and the entity parsers.  The content of a DXF   *)
(* file is the sequence of its lines (the result of split('\n')), a line  *)
(* a sequence of characters; dxfToGcode trims every line.  Line indices   *)
(* are 1-based here, one more than in the source.                          *)
(***************************************************************************)
\* the integer n as a number
Num(n) == Fin(n * Scale)

\* lines[i] as JavaScript reads it: undefined beyond the end of the array
At(lines, i) == IF i \in 1..Len(lines) THEN lines[i] ELSE <<"undefined">>

\* parseInt on a trimmed line: an optional sign and the longest run of
\* digits, NaN when there is no digit
parseInt(line) ==
    LET neg == line # <<>> /\ line[1] = "-"
        digits == Run(line, IF neg THEN 2 ELSE 1, Digits)
    IN  IF digits = <<>> THEN NaN
        ELSE Num(IF neg THEN 0 - IntVal(digits) ELSE IntVal(digits))

\* (n & 1) === 1: bit 0 of the 32-bit integer of n, 0 for NaN
BitZero(n) == IsFinite(n) /\ (n.v \div Scale) % 2 = 1

\* the lines the parsers compare with: the group code '0' and the names
Tag ==
    [Zero |-> <<"0">>,
     VERTEX |-> <<"V", "E", "R", "T", "E", "X">>,
     ENTITIES |-> <<"E", "N", "T", "I", "T", "I", "E", "S">>,
     ENDSEC |-> <<"E", "N", "D", "S", "E", "C">>,
     LINE |-> <<"L", "I", "N", "E">>,
     LWPOLYLINE |-> <<"L", "W", "P", "O", "L", "Y", "L", "I", "N", "E">>,
     POLYLINE |-> <<"P", "O", "L", "Y", "L", "I", "N", "E">>,
     CIRCLE |-> <<"C", "I", "R", "C", "L", "E">>,
     ARC |-> <<"A", "R", "C">>]

\* the branch of the loop of parseDxfPolyline for the group code and value
PolylineField(e, code, value) ==
    IF code = Num(10)
    THEN [e EXCEPT
            !.points = IF \/ e.currentX # Num(0)
                          \/ e.currentY # Num(0)
                          \/ Len(e.points) > 0
                       THEN Append(@, [x |-> e.currentX, y |-> e.currentY])
                       ELSE @,
            !.currentX = ParseFloat(value)]
    ELSE IF code = Num(20) THEN [e EXCEPT !.currentY = ParseFloat(value)]
    ELSE IF code = Num(70)
    THEN [e EXCEPT !.closed = BitZero(parseInt(value))]
    ELSE e

RECURSIVE PolylineLoop(_, _, _)
\* the end of an iteration that left e: i is already advanced by 2; the
\* loop breaks at the next entity
PolylineNext(lines, i, e) ==
    IF At(lines, i) = Tag.Zero /\ At(lines, i + 1) # Tag.VERTEX THEN e
    ELSE PolylineLoop(lines, i, e)

\* the loop of parseDxfPolyline from line i on
PolylineLoop(lines, i, e) ==
    IF /\ i <= Len(lines)
       /\ \/ lines[i] # Tag.Zero
          \/ At(lines, i + 1) = Tag.VERTEX
    THEN PolylineNext(lines, i + 2,
                      PolylineField(e, parseInt(lines[i]), At(lines, i + 1)))
    ELSE e

\* "Add last point" and the entity returned
PolylineEnd(e) ==
    [type |-> "POLYLINE",
     points |-> IF e.currentX # Num(0) \/ e.currentY # Num(0)
                THEN Append(e.points, [x |-> e.currentX, y |-> e.currentY])
                ELSE e.points,
     closed |-> e.closed]

\* parseDxfPolyline(lines, startIndex), startIndex the line of the name
parseDxfPolyline(lines, startIndex) ==
    PolylineEnd(PolylineLoop(lines, startIndex + 1,
                             [points |-> <<>>, closed |-> FALSE,
                              currentX |-> Num(0), currentY |-> Num(0)]))

\* the field a group code sets in an entity of the type, "" for none
AttributeOf(type, code) ==
    CASE type = "LINE" /\ code = Num(10) -> "x1"
      [] type = "LINE" /\ code = Num(20) -> "y1"
      [] type = "LINE" /\ code = Num(11) -> "x2"
      [] type = "LINE" /\ code = Num(21) -> "y2"
      [] type \in {"CIRCLE", "ARC"} /\ code = Num(10) -> "cx"
      [] type \in {"CIRCLE", "ARC"} /\ code = Num(20) -> "cy"
      [] type \in {"CIRCLE", "ARC"} /\ code = Num(40) -> "r"
      [] type = "ARC" /\ code = Num(50) -> "startAngle"
      [] type = "ARC" /\ code = Num(51) -> "endAngle"
      [] OTHER -> ""

\* the body of the loop of parseDxfLine, parseDxfCircle and parseDxfArc
SetAttribute(e, field, value) ==
    IF field = "" THEN e ELSE [e EXCEPT ![field] = ParseFloat(value)]

\* the loop of parseDxfLine, parseDxfCircle and parseDxfArc from line i
RECURSIVE AttributeLoop(_, _, _)
AttributeLoop(lines, i, e) ==
    IF i <= Len(lines) /\ lines[i] # Tag.Zero
    THEN AttributeLoop(lines, i + 2,
                       SetAttribute(e, AttributeOf(e.type, parseInt(lines[i])),
                                    At(lines, i + 1)))
    ELSE e

parseDxfLine(lines, startIndex) ==
    AttributeLoop(lines, startIndex + 1,
                  [type |-> "LINE", x1 |-> Num(0), y1 |-> Num(0),
                   x2 |-> Num(0), y2 |-> Num(0)])

parseDxfCircle(lines, startIndex) ==
    AttributeLoop(lines, startIndex + 1,
                  [type |-> "CIRCLE", cx |-> Num(0), cy |-> Num(0),
                   r |-> Num(0)])

parseDxfArc(lines, startIndex) ==
    AttributeLoop(lines, startIndex + 1,
                  [type |-> "ARC", cx |-> Num(0), cy |-> Num(0), r |-> Num(0),
                   startAngle |-> Num(0), endAngle |-> Num(360)])

\* the first loop of dxfToGcode: the index of the line 'ENTITIES', one
\* past the end when there is none
RECURSIVE FindEntities(_, _)
FindEntities(lines, i) ==
    IF i <= Len(lines) /\ lines[i] # Tag.ENTITIES
    THEN FindEntities(lines, i + 1)
    ELSE i

\* the entities the second loop of dxfToGcode adds for line i
EntityAt(lines, i) ==
    IF lines[i] = Tag.LINE THEN <<parseDxfLine(lines, i)>>
    ELSE IF lines[i] \in {Tag.LWPOLYLINE, Tag.POLYLINE}
    THEN <<parseDxfPolyline(lines, i)>>
    ELSE IF lines[i] = Tag.CIRCLE THEN <<parseDxfCircle(lines, i)>>
    ELSE IF lines[i] = Tag.ARC THEN <<parseDxfArc(lines, i)>>
    ELSE <<>>

\* the second loop of dxfToGcode: every line up to 'ENDSEC' is looked at
RECURSIVE EntitiesLoop(_, _, _)
EntitiesLoop(lines, i, entities) ==
    IF i <= Len(lines) /\ lines[i] # Tag.ENDSEC
    THEN EntitiesLoop(lines, i + 1, entities \o EntityAt(lines, i))
    ELSE entities

\* dxfContent.split('\n').map(l => l.trim())
TrimAll(content) == [i \in 1..Len(content) |-> Trim(content[i])]

\* the entities dxfToGcode hands to generateGcodeFromEntities
EntitiesOf(content) ==
    EntitiesLoop(TrimAll(content), FindEntities(TrimAll(content), 1) + 1,
                 <<>>)

(***************************************************************************)
(* Math.cos and Math.sin.  An angle is held in angle units, AnglePerDegree *)
(* of them to the degree, so that every angle generateGcodeFromEntities   *)
(* forms from parsed degrees is a whole number of units.  The functions   *)
(* are computed in fixed point, TrigScale units to 1: the angle is brought *)
(* into the first half quadrant by the symmetries of the functions, where *)
(* their power series are summed.  Sines and cosines of multiples of 90   *)
(* degrees are exact; the sign of a zero is not modelled.                  *)
(***************************************************************************)
\* const segments = 36 (circle) and const segments = 18 (arc)
circleSegments == 36
arcSegments == 18

TrigScale == 10000
AnglePerDegree == Scale * arcSegments
Degrees(n) == n * AnglePerDegree

\* the angle q, at most 45 degrees, in radians, TrigScale units to the radian
Radians(q) == (q * 17453) \div ((1000000 \div TrigScale) * AnglePerDegree)

\* x - x^3/3! + x^5/5! - x^7/7!, x at most PI/4
SinSeries(x) ==
    LET x2 == (x * x) \div TrigScale
        t3 == (x * x2) \div (6 * TrigScale)
        t5 == (t3 * x2) \div (20 * TrigScale)
        t7 == (t5 * x2) \div (42 * TrigScale)
    IN  x - t3 + t5 - t7

\* 1 - x^2/2! + x^4/4! - x^6/6! + x^8/8!, x at most PI/4
CosSeries(x) ==
    LET x2 == (x * x) \div TrigScale
        c2 == x2 \div 2
        c4 == (c2 * x2) \div (12 * TrigScale)
        c6 == (c4 * x2) \div (30 * TrigScale)
        c8 == (c6 * x2) \div (56 * TrigScale)
    IN  TrigScale - c2 + c4 - c6 + c8

\* sin of an angle of 0 to 90 degrees
SinQuadrant(q) ==
    IF q <= Degrees(45) THEN SinSeries(Radians(q))
    ELSE CosSeries(Radians(Degrees(90) - q))

\* sin of an angle of 0 to 360 degrees: sin(180 + h) = -sin(h), and
\* sin(180 - q) = sin(q)
SinTurn(m) ==
    IF m <= Degrees(90) THEN SinQuadrant(m)
    ELSE IF m <= Degrees(180) THEN SinQuadrant(Degrees(180) - m)
    ELSE IF m <= Degrees(270) THEN 0 - SinQuadrant(m - Degrees(180))
    ELSE 0 - SinQuadrant(Degrees(360) - m)

\* Math.sin and Math.cos of an angle, NaN for NaN
MathSin(angle) ==
    IF IsFinite(angle) THEN Fin(SinTurn(angle.v % Degrees(360))) ELSE NaN

MathCos(angle) ==
    IF IsFinite(angle)
    THEN Fin(SinTurn((angle.v + Degrees(90)) % Degrees(360)))
    ELSE NaN

(***************************************************************************)
(* Number.prototype.toFixed(3) and the numbers of the template literals.   *)
(* The coordinates generateGcodeFromEntities prints are held in fine      *)
(* units, Scale * TrigScale of them to the millimetre.                     *)
(***************************************************************************)
\* a parsed number in fine units
Fine(a) == IF IsFinite(a) THEN Fin(a.v * TrigScale) ELSE a

\* c + r * t for a cosine or sine t, in fine units
Polar(c, r, t) ==
    IF IsFinite(c) /\ IsFinite(r) /\ IsFinite(t)
    THEN Fin(c.v * TrigScale + r.v * t.v)
    ELSE NaN

DigitChar(d) ==
    CASE d = 0 -> "0" [] d = 1 -> "1" [] d = 2 -> "2" [] d = 3 -> "3"
      [] d = 4 -> "4" [] d = 5 -> "5" [] d = 6 -> "6" [] d = 7 -> "7"
      [] d = 8 -> "8" [] d = 9 -> "9"

\* the decimal digits of the natural number n
RECURSIVE IntText(_)
IntText(n) ==
    IF n < 10 THEN <<DigitChar(n)>>
    ELSE Append(IntText(n \div 10), DigitChar(n % 10))

\* the integer n in a template literal
NumText(n) == IF n < 0 THEN <<"-">> \o IntText(0 - n) ELSE IntText(n)

\* the text of t thousandths: the integer part, the point, three decimals
ThousandthsText(t) ==
    IntText(t \div 1000)
    \o <<".", DigitChar((t \div 100) % 10), DigitChar((t \div 10) % 10),
         DigitChar(t % 10)>>

\* toFixed(3) of a number in fine units, (Scale * TrigScale) \div 1000 of
\* them to the thousandth: rounded to the nearest thousandth, the sign kept
\* even when the digits are all 0
toFixed(a) ==
    IF ~IsFinite(a) THEN <<"N", "a", "N">>
    ELSE IF a.v < 0
    THEN <<"-">>
         \o ThousandthsText(((0 - a.v) + (Scale * TrigScale) \div 2000)
                            \div ((Scale * TrigScale) \div 1000))
    ELSE ThousandthsText((a.v + (Scale * TrigScale) \div 2000)
                         \div ((Scale * TrigScale) \div 1000))

(***************************************************************************)
(* generateGcodeFromEntities: the lines of the program, which the source  *)
(* joins with '\n' and parseGcode splits again.                            *)
(***************************************************************************)
\* const feedRate = 400, safeZ = 5, cutZ = -1
dxfFeedRate == 400
safeZ == 5
cutZ == -1

\* the literal parts of the lines
Text ==
    [Generated |-> <<"(", "G", "e", "n", "e", "r", "a", "t", "e", "d", " ",
        "f", "r", "o", "m", " ", "D", "X", "F", " ", "f", "i", "l", "e", ")">>,
     FeedOpen |-> <<"(", "F", "e", "e", "d", " ", "R", "a", "t", "e", ":",
        " ">>,
     FeedClose |-> <<" ", "m", "m", "/", "m", "i", "n", ")">>,
     SafeOpen |-> <<"(", "S", "a", "f", "e", " ", "Z", ":", " ">>,
     CutOpen |-> <<"m", "m", ",", " ", "C", "u", "t", " ", "Z", ":", " ">>,
     CutClose |-> <<"m", "m", ")">>,
     Millimeters |-> <<"G", "2", "1", " ", " ", " ", " ", " ", " ", " ",
        " ", " ", ";", " ", "M", "i", "l", "l", "i", "m", "e", "t", "e",
        "r", "s">>,
     Absolute |-> <<"G", "9", "0", " ", " ", " ", " ", " ", " ", " ", " ",
        " ", ";", " ", "A", "b", "s", "o", "l", "u", "t", "e", " ", "p",
        "o", "s", "i", "t", "i", "o", "n", "i", "n", "g">>,
     Plane |-> <<"G", "1", "7", " ", " ", " ", " ", " ", " ", " ", " ",
        " ", ";", " ", "X", "Y", " ", "p", "l", "a", "n", "e">>,
     Initialize |-> <<";", " ", "I", "n", "i", "t", "i", "a", "l", "i",
        "z", "e", " ", "-", " ", "l", "i", "f", "t", " ", "p", "e", "n",
        " ", "a", "n", "d", " ", "g", "o", " ", "t", "o", " ", "o", "r",
        "i", "g", "i", "n">>,
     LiftZ |-> <<"G", "0", " ", "Z">>,
     Origin |-> <<"G", "0", " ", "X", "0", " ", "Y", "0">>,
     PenUp |-> <<" ", " ", " ", " ", " ", " ", " ", " ", " ", " ", " ",
        ";", " ", "P", "e", "n", " ", "u", "p">>,
     PenDown |-> <<" ", " ", " ", " ", " ", " ", " ", " ", " ", " ", " ",
        " ", ";", " ", "P", "e", "n", " ", "d", "o", "w", "n">>,
     RapidX |-> <<"G", "0", " ", "X">>,
     LinearX |-> <<"G", "1", " ", "X">>,
     Y |-> <<" ", "Y">>,
     F |-> <<" ", "F">>,
     Line |-> <<";", " ", "L", "I", "N", "E">>,
     PolylineOpen |-> <<";", " ", "P", "O", "L", "Y", "L", "I", "N", "E",
        " ", "(">>,
     PolylineClose |-> <<" ", "p", "o", "i", "n", "t", "s", ")">>,
     CircleOpen |-> <<";", " ", "C", "I", "R", "C", "L", "E", " ", "(",
        "c", "e", "n", "t", "e", "r", ":", " ">>,
     Comma |-> <<",", " ">>,
     Radius |-> <<",", " ", "r", ":", " ">>,
     Paren |-> <<")">>,
     Arc |-> <<";", " ", "A", "R", "C">>,
     Finish |-> <<";", " ", "F", "i", "n", "i", "s", "h", " ", "-", " ",
        "l", "i", "f", "t", " ", "p", "e", "n", " ", "a", "n", "d", " ",
        "r", "e", "t", "u", "r", "n", " ", "t", "o", " ", "o", "r", "i",
        "g", "i", "n">>,
     ProgramEnd |-> <<"M", "3", "0", " ", " ", " ", " ", " ", " ", " ",
        " ", " ", ";", " ", "P", "r", "o", "g", "r", "a", "m", " ", "e",
        "n", "d">>]

\* the initial value of the array gcode
GcodeHeader ==
    <<LnPercent,
      Text.Generated,
      Text.FeedOpen \o NumText(dxfFeedRate) \o Text.FeedClose,
      Text.SafeOpen \o NumText(safeZ) \o Text.CutOpen \o NumText(cutZ)
          \o Text.CutClose,
      LnEmpty,
      Text.Millimeters,
      Text.Absolute,
      Text.Plane,
      LnEmpty,
      Text.Initialize,
      Text.LiftZ \o NumText(safeZ),
      Text.Origin,
      LnEmpty>>

PenUp == Text.LiftZ \o NumText(safeZ) \o Text.PenUp
PenDown == Text.LiftZ \o NumText(cutZ) \o Text.PenDown

\* `G0 X${x.toFixed(3)} Y${y.toFixed(3)}`, x and y in fine units
RapidTo(x, y) == Text.RapidX \o toFixed(x) \o Text.Y \o toFixed(y)

\* `G1 X${x.toFixed(3)} Y${y.toFixed(3)} F${feedRate}`
LinearTo(x, y) ==
    Text.LinearX \o toFixed(x) \o Text.Y \o toFixed(y) \o Text.F
    \o NumText(dxfFeedRate)

\* the lines pushed for a LINE
LineBlock(e) ==
    <<Text.Line, PenUp, RapidTo(Fine(e.x1), Fine(e.y1)), PenDown,
      LinearTo(Fine(e.x2), Fine(e.y2))>>

\* the lines pushed for a POLYLINE: none unless it has two points or more
PolylineBlock(e) ==
    IF Len(e.points) > 1
    THEN <<Text.PolylineOpen \o NumText(Len(e.points)) \o Text.PolylineClose,
           PenUp,
           RapidTo(Fine(e.points[1].x), Fine(e.points[1].y)),
           PenDown>>
         \o [j \in 1..(Len(e.points) - 1) |->
               LinearTo(Fine(e.points[j + 1].x), Fine(e.points[j + 1].y))]
         \o (IF e.closed
              THEN <<LinearTo(Fine(e.points[1].x), Fine(e.points[1].y))>>
              ELSE <<>>)
    ELSE <<>>

\* (j / segments) * 2 * Math.PI
CircleAngle(j) == Fin(j * (Degrees(360) \div circleSegments))

\* the lines pushed for a CIRCLE: firstX = cx + r, firstY = cy, and the
\* linear moves of j = 1 .. segments
CircleBlock(e) ==
    <<Text.CircleOpen \o toFixed(Fine(e.cx)) \o Text.Comma
          \o toFixed(Fine(e.cy)) \o Text.Radius \o toFixed(Fine(e.r))
          \o Text.Paren,
      PenUp,
      RapidTo(Polar(e.cx, e.r, Fin(TrigScale)), Fine(e.cy)),
      PenDown>>
    \o [j \in 1..circleSegments |->
          LinearTo(Polar(e.cx, e.r, MathCos(CircleAngle(j))),
                   Polar(e.cy, e.r, MathSin(CircleAngle(j))))]

\* entity.startAngle * Math.PI / 180
StartRad(e) ==
    IF IsFinite(e.startAngle) THEN Fin(e.startAngle.v * arcSegments) ELSE NaN

\* angleDiff, in degrees: endRad - startRad, a full turn added when that
\* is negative; NaN when one of the angles is
AngleDiff(e) ==
    IF IsFinite(e.startAngle) /\ IsFinite(e.endAngle)
    THEN Fin(IF e.endAngle.v - e.startAngle.v < 0
             THEN e.endAngle.v - e.startAngle.v + 360 * Scale
             ELSE e.endAngle.v - e.startAngle.v)
    ELSE NaN

\* startRad + (j / segments) * angleDiff
ArcAngle(e, j) ==
    IF IsFinite(AngleDiff(e))
    THEN Fin(e.startAngle.v * arcSegments + j * AngleDiff(e).v)
    ELSE NaN

\* the lines pushed for an ARC, the linear moves those of j = 1 .. segments
ArcBlock(e) ==
    <<Text.Arc,
      PenUp,
      RapidTo(Polar(e.cx, e.r, MathCos(StartRad(e))),
              Polar(e.cy, e.r, MathSin(StartRad(e)))),
      PenDown>>
    \o [j \in 1..arcSegments |->
          LinearTo(Polar(e.cx, e.r, MathCos(ArcAngle(e, j))),
                   Polar(e.cy, e.r, MathSin(ArcAngle(e, j))))]

\* the lines the loop over the entities pushes for e, the closing empty
\* line included
EntityBlock(e) ==
    (CASE e.type = "LINE" -> LineBlock(e)
       [] e.type = "POLYLINE" -> PolylineBlock(e)
       [] e.type = "CIRCLE" -> CircleBlock(e)
       [] e.type = "ARC" -> ArcBlock(e))
    \o <<LnEmpty>>

RECURSIVE EntityBlocks(_, _)
EntityBlocks(entities, i) ==
    IF i > Len(entities) THEN <<>>
    ELSE EntityBlock(entities[i]) \o EntityBlocks(entities, i + 1)

\* the lines pushed after the loop
GcodeFooter ==
    <<Text.Finish, PenUp, Text.Origin, LnEmpty, Text.ProgramEnd, LnPercent>>

generateGcodeFromEntities(entities) ==
    GcodeHeader \o EntityBlocks(entities, 1) \o GcodeFooter

dxfToGcode(dxfContent) == generateGcodeFromEntities(EntitiesOf(dxfContent))

(***************************************************************************)
(* The DXF files of the model.  A file is the sequence of its lines as    *)
(* written: the group codes right-justified in three columns, the values  *)
(* and names unpadded.  Every file has one ENTITIES section.               *)
(***************************************************************************)
\* the lines of the files: group codes, names and values
Dxf ==
    [Code0 |-> <<" ", " ", "0">>,
     Code2 |-> <<" ", " ", "2">>,
     Code10 |-> <<" ", "1", "0">>,
     Code20 |-> <<" ", "2", "0">>,
     Code11 |-> <<" ", "1", "1">>,
     Code21 |-> <<" ", "2", "1">>,
     Code40 |-> <<" ", "4", "0">>,
     Code50 |-> <<" ", "5", "0">>,
     Code51 |-> <<" ", "5", "1">>,
     Code70 |-> <<" ", "7", "0">>,
     SECTION |-> <<"S", "E", "C", "T", "I", "O", "N">>,
     SEQEND |-> <<"S", "E", "Q", "E", "N", "D">>,
     EOF |-> <<"E", "O", "F">>,
     Value0 |-> <<"0", ".", "0">>,
     Value2 |-> <<"2", ".", "0">>,
     Value3 |-> <<"3", ".", "0">>,
     Value4 |-> <<"4", ".", "0">>,
     Value5 |-> <<"5", ".", "0">>,
     ValueMinus1p5 |-> <<"-", "1", ".", "5">>,
     ValueMinus2p5 |-> <<"-", "2", ".", "5">>,
     Value10 |-> <<"1", "0">>,
     Value90 |-> <<"9", "0", ".", "0">>,
     Value180 |-> <<"1", "8", "0", ".", "0">>,
     Value350 |-> <<"3", "5", "0", ".", "0">>,
     Value360 |-> <<"3", "6", "0", ".", "0">>,
     Value720 |-> <<"7", "2", "0", ".", "0">>,
     Flag1 |-> <<"1">>,
     Flag2 |-> <<"2">>,
     Flag3 |-> <<"3">>]

\* the lines of a file whose ENTITIES section holds the lines entity
Section(entity) ==
    <<Dxf.Code0, Dxf.SECTION, Dxf.Code2, Tag.ENTITIES>> \o entity
    \o <<Dxf.Code0, Tag.ENDSEC, Dxf.Code0, Dxf.EOF>>

\* the vertices of the polylines: pairs of an X text and a Y text
DxfPoints ==
    {<<Dxf.Value0, Dxf.Value0>>, <<Dxf.Value3, Dxf.Value0>>,
     <<Dxf.Value0, Dxf.Value4>>, <<Dxf.ValueMinus1p5, Dxf.Value2>>}

VertexLists == UNION {[1..n -> DxfPoints] : n \in 1..MaxVertices}

\* the groups of the vertices vs of an LWPOLYLINE from the k-th on
RECURSIVE LwVertices(_, _)
LwVertices(vs, k) ==
    IF k > Len(vs) THEN <<>>
    ELSE <<Dxf.Code10, vs[k][1], Dxf.Code20, vs[k][2]>>
         \o LwVertices(vs, k + 1)

\* the VERTEX entities of the vertices vs of a POLYLINE from the k-th on
RECURSIVE OldVertices(_, _)
OldVertices(vs, k) ==
    IF k > Len(vs) THEN <<>>
    ELSE <<Dxf.Code0, Tag.VERTEX, Dxf.Code10, vs[k][1], Dxf.Code20, vs[k][2]>>
         \o OldVertices(vs, k + 1)

\* the flag group of a polyline: absent, or code 70 with 1, 2 or 3
FlagGroups ==
    {<<>>, <<Dxf.Code70, Dxf.Flag1>>, <<Dxf.Code70, Dxf.Flag2>>,
     <<Dxf.Code70, Dxf.Flag3>>}

PolylineFiles ==
    {Section(<<Dxf.Code0, Tag.LWPOLYLINE>> \o f \o LwVertices(vs, 1)) :
        f \in FlagGroups, vs \in VertexLists}
    \cup {Section(<<Dxf.Code0, Tag.POLYLINE>> \o f \o OldVertices(vs, 1)
                  \o <<Dxf.Code0, Dxf.SEQEND>>) :
             f \in FlagGroups, vs \in VertexLists}

\* the centre of a circle or arc: absent, the origin or (5, -2.5)
CentreGroups ==
    {<<>>, <<Dxf.Code10, Dxf.Value0, Dxf.Code20, Dxf.Value0>>,
     <<Dxf.Code10, Dxf.Value5, Dxf.Code20, Dxf.ValueMinus2p5>>}

RadiusGroups ==
    {<<>>, <<Dxf.Code40, Dxf.Value2>>, <<Dxf.Code40, Dxf.Value10>>}

CircleFiles ==
    {Section(<<Dxf.Code0, Tag.CIRCLE>> \o c \o r) :
        c \in CentreGroups, r \in RadiusGroups}

StartGroups ==
    {<<>>, <<Dxf.Code50, Dxf.Value0>>, <<Dxf.Code50, Dxf.Value10>>,
     <<Dxf.Code50, Dxf.Value90>>, <<Dxf.Code50, Dxf.Value350>>,
     <<Dxf.Code50, Dxf.Value720>>}

EndGroups ==
    {<<>>, <<Dxf.Code51, Dxf.Value0>>, <<Dxf.Code51, Dxf.Value10>>,
     <<Dxf.Code51, Dxf.Value180>>, <<Dxf.Code51, Dxf.Value360>>}

ArcFiles ==
    {Section(<<Dxf.Code0, Tag.ARC, Dxf.Code10, Dxf.Value5,
               Dxf.Code20, Dxf.ValueMinus2p5, Dxf.Code40, Dxf.Value10>>
             \o a \o b) :
        a \in StartGroups, b \in EndGroups}

LineFiles ==
    {Section(<<Dxf.Code0, Tag.LINE, Dxf.Code10, Dxf.Value0,
               Dxf.Code20, Dxf.Value0>> \o p) :
        p \in {<<>>, <<Dxf.Code11, Dxf.Value3, Dxf.Code21, Dxf.Value4>>}}

\* a LINE, a CIRCLE and an ARC with all their groups, none of value 0
FullLine ==
    <<Dxf.Code0, Tag.LINE, Dxf.Code10, Dxf.Value3, Dxf.Code20, Dxf.Value4,
      Dxf.Code11, Dxf.Value5, Dxf.Code21, Dxf.ValueMinus1p5>>

FullCircle ==
    <<Dxf.Code0, Tag.CIRCLE, Dxf.Code10, Dxf.Value5,
      Dxf.Code20, Dxf.ValueMinus2p5, Dxf.Code40, Dxf.Value10>>

FullArc ==
    <<Dxf.Code0, Tag.ARC, Dxf.Code10, Dxf.Value5,
      Dxf.Code20, Dxf.ValueMinus2p5, Dxf.Code40, Dxf.Value10,
      Dxf.Code50, Dxf.Value10, Dxf.Code51, Dxf.Value180>>

FullEntities == {FullLine, FullCircle, FullArc}

\* the lines of the entity e without its k-th group
Without(e, k) == SubSeq(e, 1, 2 * k) \o SubSeq(e, 2 * k + 3, Len(e))

\* files of two entities, the first lacking one of its groups
MissingFiles ==
    UNION {{Section(Without(e, k) \o FullLine) :
                k \in 1..((Len(e) - 2) \div 2)} : e \in FullEntities}

\* files cut short: after a LINE, the first n lines of an entity, and
\* there the file ends, between two groups or between a group code and
\* its value
TruncatedFiles ==
    UNION {{<<Dxf.Code0, Dxf.SECTION, Dxf.Code2, Tag.ENTITIES>> \o FullLine
            \o SubSeq(e, 1, n) : n \in 2..Len(e)} : e \in FullEntities}

DxfFiles ==
    PolylineFiles \cup CircleFiles \cup ArcFiles \cup LineFiles
    \cup MissingFiles \cup TruncatedFiles

(***************************************************************************)
(* animate: one step of the playback engine                                *)
(***************************************************************************)
\* the integer part of the square root of n >= 0
RECURSIVE SqrtBetween(_, _, _)
SqrtBetween(n, lo, hi) ==
    IF lo >= hi THEN lo
    ELSE LET mid == (lo + hi + 1) \div 2
         IN  IF mid <= n \div mid THEN SqrtBetween(n, mid, hi)
             ELSE SqrtBetween(n, lo, mid - 1)

Isqrt(n) == SqrtBetween(n, 0, n)

\* (this.speed / 25) * (cmd.type === 'G0' ? 3 : 1), in fixed point
stepSize(s, cmd) ==
    ((s.speed * Scale) \div 25) * (IF cmd.type = "G0" THEN 3 ELSE 1)

\* the operands of the distance are all numbers (none is NaN)
Measurable(s, cmd) ==
    IsFinite(cmd.x) /\ IsFinite(cmd.y) /\ IsFinite(s.toolX) /\ IsFinite(s.toolY)

\* the square of the distance from the tool to the target
DistanceSq(s, cmd) ==
    (cmd.x.v - s.toolX.v) * (cmd.x.v - s.toolX.v)
    + (cmd.y.v - s.toolY.v) * (cmd.y.v - s.toolY.v)

\* distance < stepSize: false when the distance is NaN
Reached(s, cmd) ==
    /\ Measurable(s, cmd)
    /\ DistanceSq(s, cmd) < stepSize(s, cmd) * stepSize(s, cmd)

\* Snap leaving the tool where the last interpolation put it
SnapKeepsTool(s, cmd) ==
    [s EXCEPT !.feedRate = cmd.feedRate,
              !.pathHistory = Append(s.pathHistory,
                                  [x |-> cmd.x, y |-> cmd.y, type |-> cmd.type]),
              !.currentIndex = s.currentIndex + 1]

\* the branch that reaches the target and moves to the next command
Snap(s, cmd) ==
    [s EXCEPT !.toolX = cmd.x,
              !.toolY = cmd.y,
              !.feedRate = cmd.feedRate,
              !.pathHistory = Append(s.pathHistory,
                                  [x |-> cmd.x, y |-> cmd.y, type |-> cmd.type]),
              !.currentIndex = s.currentIndex + 1]

\* the branch that interpolates: ratio = stepSize / distance is NaN when the
\* distance is NaN or when 0 is divided by 0, and the tool becomes NaN with it
Interpolate(s, cmd) ==
    IF ~Measurable(s, cmd) \/ DistanceSq(s, cmd) = 0
    THEN [s EXCEPT !.toolX = NaN, !.toolY = NaN]
    ELSE LET distance == Isqrt(DistanceSq(s, cmd))
             step == stepSize(s, cmd)
         IN  [s EXCEPT
                !.toolX = Fin(s.toolX.v
                              + Quot((cmd.x.v - s.toolX.v) * step, distance)),
                !.toolY = Fin(s.toolY.v
                              + Quot((cmd.y.v - s.toolY.v) * step, distance))]

\* the simulator r with the position of its tool pushed onto the history
Recorded(r, type) ==
    [r EXCEPT !.pathHistory = Append(r.pathHistory,
                                  [x |-> r.toolX, y |-> r.toolY, type |-> type])]

\* Step recording the interpolated positions in the history too
StepRecordsAll(s, cmd) ==
    IF Reached(s, cmd) THEN Snap(s, cmd)
    ELSE Recorded(Interpolate(s, cmd), cmd.type)

\* the step toward the target cmd = this.commands[this.currentIndex]
Step(s, cmd) ==
    IF Reached(s, cmd) THEN Snap(s, cmd) ELSE Interpolate(s, cmd)

\* animate reporting Complete without leaving the running state
animateStaysRunning(s) ==
    IF ~s.isRunning \/ s.currentIndex >= Len(s.commands)
    THEN IF s.isRunning /\ s.currentIndex >= Len(s.commands)
         THEN [s EXCEPT !.status = "Complete"]
         ELSE s
    ELSE requestAnimationFrame(Step(s, s.commands[s.currentIndex + 1]))

animate(s) ==
    IF ~s.isRunning \/ s.currentIndex >= Len(s.commands)
    THEN IF s.currentIndex >= Len(s.commands)
         THEN [s EXCEPT !.isRunning = FALSE, !.status = "Complete"]
         ELSE s
    ELSE requestAnimationFrame(Step(s, s.commands[s.currentIndex + 1]))

(***************************************************************************)
(* startSimulation and togglePause                                         *)
(***************************************************************************)
\* StartParsed without the return on an empty command list
StartParsedRunsEmpty(p) ==
    IF p.isPaused
    THEN animate([p EXCEPT !.isPaused = FALSE,
                           !.isRunning = TRUE,
                           !.status = "Running"])
    ELSE animate([reset(p) EXCEPT !.isRunning = TRUE,
                                  !.status = "Running"])

\* StartParsed taking the restart path when the simulator is paused too
StartParsedRestarts(p) ==
    IF Len(p.commands) = 0 THEN p
    ELSE animate([reset(p) EXCEPT !.isRunning = TRUE,
                                  !.status = "Running"])

\* startSimulation after its first test: p is the simulator once the text
\* has been parsed again, which happens when there were no commands
StartParsed(p) ==
    IF Len(p.commands) = 0 THEN p
    ELSE IF p.isPaused
    THEN animate([p EXCEPT !.isPaused = FALSE,
                           !.isRunning = TRUE,
                           !.status = "Running"])
    ELSE animate([reset(p) EXCEPT !.isRunning = TRUE,
                                  !.status = "Running"])

startSimulation(s) ==
    StartParsed(IF Len(s.commands) = 0 THEN parseGcode(s) ELSE s)

\* togglePause pausing without the cancellation of the pending frame
togglePauseKeepsFrame(s) ==
    IF s.isRunning
    THEN [s EXCEPT !.isPaused = TRUE,
                   !.isRunning = FALSE,
                   !.status = "Paused"]
    ELSE IF s.isPaused THEN startSimulation(s)
    ELSE s

\* togglePause pausing without leaving the running state
togglePauseStaysRunning(s) ==
    IF s.isRunning
    THEN cancelAnimationFrame([s EXCEPT !.isPaused = TRUE,
                                        !.status = "Paused"])
    ELSE IF s.isPaused THEN startSimulation(s)
    ELSE s

togglePause(s) ==
    IF s.isRunning
    THEN cancelAnimationFrame([s EXCEPT !.isPaused = TRUE,
                                        !.isRunning = FALSE,
                                        !.status = "Paused"])
    ELSE IF s.isPaused THEN startSimulation(s)
    ELSE s

(***************************************************************************)
(* Initial state: the constructor has run init(), which loads the sample  *)
(* program into the text area and parses it.                               *)
(***************************************************************************)
\* the simulator and its surroundings are as the record s
Is(s) ==
    /\ gcodeInput = s.gcodeInput
    /\ commands = s.commands
    /\ currentIndex = s.currentIndex
    /\ isRunning = s.isRunning
    /\ isPaused = s.isPaused
    /\ animationId = s.animationId
    /\ toolX = s.toolX
    /\ toolY = s.toolY
    /\ feedRate = s.feedRate
    /\ minX = s.minX
    /\ maxX = s.maxX
    /\ minY = s.minY
    /\ maxY = s.maxY
    /\ speed = s.speed
    /\ pathHistory = s.pathHistory
    /\ status = s.status
    /\ statG0 = s.statG0
    /\ statG1 = s.statG1
    /\ pending = s.pending
    /\ scale = s.scale
    /\ offsetX = s.offsetX
    /\ offsetY = s.offsetY
    /\ canvasWidth = s.canvasWidth
    /\ canvasHeight = s.canvasHeight
    /\ dxfReader = s.dxfReader

\* init() with a canvas of w by h: setupCanvas, then loadSampleGcode
Started(w, h) == parseGcode(setupCanvas(Constructed, w, h))

Init ==
    /\ Is(Started(DisplayWidth, DisplayHeight))
    /\ resets = 0
    /\ interrupted = FALSE
    /\ ignored = "none"

(***************************************************************************)
(* Actions: the event handlers bindEvents installs, and the frame callback *)
(***************************************************************************)
\* 'input' on the text area (and loadFile, loadDxfFile, applyGcode, which
\* set the text and parse it alike): the text becomes text and is parsed
Input(text) ==
    /\ Becomes(parseGcode([Self EXCEPT !.gcodeInput = text]))
    /\ resets' = 0
    /\ interrupted' = (isRunning \/ isPaused)
    /\ ignored' = "none"

\* the texts one edit makes of the text area, among texts of at most n lines
\* over lines: a line typed at the end, or the whole text replaced by a line
Edits(lines, n) ==
    {<<line>> : line \in lines}
    \cup (IF Len(gcodeInput) < n
          THEN {Append(gcodeInput, line) : line \in lines}
          ELSE {})

\* click on the simulate button
StartSimulation ==
    /\ Becomes(startSimulation(Self))
    /\ resets' = 0
    /\ interrupted' = FALSE
    /\ ignored' = IF Len(commands) = 0 /\ Len(commands') = 0
                  THEN "start" ELSE "none"

\* click on the pause button
TogglePause ==
    /\ Becomes(togglePause(Self))
    /\ resets' = 0
    /\ interrupted' = FALSE
    /\ ignored' = IF ~isRunning /\ ~isPaused THEN "pause" ELSE "none"

\* click on the reset button
Reset ==
    /\ Becomes(reset(Self))
    /\ resets' = IF resets = 0 THEN 1 ELSE 2
    /\ interrupted' = FALSE
    /\ ignored' = "none"

\* 'input' on the speed slider
SetSpeed(v) ==
    /\ v # speed
    /\ Becomes([Self EXCEPT !.speed = v])
    /\ resets' = 0
    /\ interrupted' = FALSE
    /\ ignored' = "none"

\* the browser fires a pending frame, whose callback is animate
Tick(id) ==
    /\ id \in pending
    /\ \E s \in {[Self EXCEPT !.pending = pending \ {id}]} : Becomes(animate(s))
    /\ resets' = 0
    /\ interrupted' = FALSE
    /\ ignored' = "none"

\* 'resize' on the window: the canvas takes the size w by h, and the view
\* is computed again
Resize(w, h) ==
    /\ <<w, h>> # <<canvasWidth, canvasHeight>>
    /\ Becomes(calculateView([Self EXCEPT !.canvasWidth = w,
                                          !.canvasHeight = h]))
    /\ resets' = 0
    /\ interrupted' = FALSE
    /\ ignored' = "none"

InputView == \E text \in Edits(ViewLines, MaxLines) : Input(text)
ResizeView == \E w \in CanvasWidths, h \in CanvasHeights : Resize(w, h)
InputPlay == \E text \in Edits(PlayLines, MaxPlayLines) : Input(text)
InputParse == \E text \in Edits(ParseLines, MaxLines) : Input(text)
ChangeSpeed == \E v \in Speeds : SetSpeed(v)
Frame == \E id \in pending : Tick(id)

\* loadDxfFile on a file of the lines content: a FileReader starts reading
loadDxfFile(s, content) ==
    [s EXCEPT !.dxfReader = [readyState |-> "LOADING", result |-> content]]

\* reader.onload of loadDxfFile: the text area is set to the program
\* dxfToGcode makes of the file, and parseGcode runs on it
dxfLoaded(s) ==
    Install([s EXCEPT !.gcodeInput = dxfToGcode(s.dxfReader.result),
                      !.dxfReader.readyState = "DONE"],
            ParseText(dxfToGcode(s.dxfReader.result)))

\* the FileReader of loadDxfFile has read the file
DxfLoaded ==
    /\ dxfReader.readyState = "LOADING"
    /\ Becomes(dxfLoaded(Self))
    /\ resets' = 0
    /\ interrupted' = (isRunning \/ isPaused)
    /\ ignored' = "none"

Next ==
    \/ InputPlay
    \/ StartSimulation
    \/ TogglePause
    \/ Reset
    \/ ChangeSpeed
    \/ Frame

Spec == Init /\ [][Next]_vars

\* a run: a program with commands has been put in the text area, the speed
\* slider set above 0 and the simulate button clicked
InitRun ==
    /\ \E text \in PlayTexts, v \in Speeds \ {0} :
          LET typed == [Started(DisplayWidth, DisplayHeight)
                           EXCEPT !.gcodeInput = text, !.speed = v]
              run == startSimulation(parseGcode(typed))
          IN  Len(run.commands) > 0 /\ Is(run)
    /\ resets = 0
    /\ interrupted = FALSE
    /\ ignored = "none"

\* a step of an undisturbed run: a tick, or a move of the speed slider to a
\* speed above 0; no start, pause, reset or reload
NextRun == Frame \/ (ChangeSpeed /\ speed' > 0)

\* the undisturbed run with the browser firing every frame it was asked
\* for: a frame requested by animate and not cancelled is fired in the end
RunSpec == InitRun /\ [][NextRun]_vars /\ WF_vars(Frame)

\* the view alone: the window opens on a canvas of any of the sizes, and
\* from then on the text is edited and the window resized
InitView ==
    /\ \E w \in CanvasWidths, h \in CanvasHeights : Is(Started(w, h))
    /\ resets = 0
    /\ interrupted = FALSE
    /\ ignored = "none"

NextView == InputView \/ ResizeView

ViewSpec == InitView /\ [][NextView]_vars

\* the DXF import alone: a file of DxfFiles has been chosen on the page
\* just opened, and its FileReader then delivers it
InitDxf ==
    /\ \E content \in DxfFiles :
          Is(loadDxfFile(Started(DisplayWidth, DisplayHeight), content))
    /\ resets = 0
    /\ interrupted = FALSE
    /\ ignored = "none"

DxfSpec == InitDxf /\ [][DxfLoaded]_vars

\* the parser alone, on every text of ParseTexts
NextParse == InputParse

ParseSpec == Init /\ [][NextParse]_vars

(***************************************************************************)
(* Properties of parseGcode, checked under ParseSpec.  In every state the  *)
(* fields commands, minX .. maxY, statG0 and statG1 are the result of      *)
(* parseGcode on the text gcodeInput.                                      *)
(***************************************************************************)
\* the code part of the line a command was stored for
CodeOf(cmd) == CodePart(gcodeInput[cmd.lineNumber])

\* the value of the field letter on the line of the last command up to the
\* k-th whose line has that field, 0 when no such line has it
Carried(k, letter, chars) ==
    LET J == {j \in 1..k : FieldMatch(CodeOf(commands[j]), letter, chars) # <<>>}
        last == CHOOSE j \in J : \A i \in J : i <= j
    IN  IF J = {} THEN Fin(0)
        ELSE ParseFloat(FieldMatch(CodeOf(commands[last]), letter, chars))

\* what the claims call (kind, x, y, feed rate) of a command
Motion(cmd) == <<cmd.type, cmd.x, cmd.y, cmd.feedRate>>

\* C1: coordinate carry-forward.  Each of X, Y and F of a command has the
\* value of the most recent recognized line, up to its own, that carries the
\* field, and 0 if none does; and the text "G0 X5\nG1 Y10 F200" yields
\* exactly the commands (G0, 5, 0, feed 0), (G1, 5, 10, feed 200).
C1_CarryForward ==
    /\ \A k \in 1..Len(commands) :
          /\ commands[k].x = Carried(k, "X", CoordChars)
          /\ commands[k].y = Carried(k, "Y", CoordChars)
          /\ commands[k].feedRate = Carried(k, "F", FeedChars)
    /\ gcodeInput = <<LnRapidX5, LnLinearY10F200>> =>
          /\ Len(commands) = 2
          /\ Motion(commands[1]) = <<"G0", Fin(5 * Scale), Fin(0), Fin(0)>>
          /\ Motion(commands[2])
                = <<"G1", Fin(5 * Scale), Fin(10 * Scale), Fin(200 * Scale)>>

\* C1 witness: the text of the claim has been parsed, and its second command
\* has inherited X from the first line
C1_Witness ==
    /\ gcodeInput = <<LnRapidX5, LnLinearY10F200>>
    /\ Len(commands) = 2
    /\ commands[2].x = Fin(5 * Scale)
    /\ xMatch(CodeOf(commands[2])) = <<>>

\* C2: envelope correctness, as claimed.  Every command lies within the
\* bounding box, and a text without commands yields the box (0,0)-(100,100).
C2_EnvelopeContainsCommands ==
    /\ \A k \in 1..Len(commands) :
          /\ NumLeq(minX, commands[k].x) /\ NumLeq(commands[k].x, maxX)
          /\ NumLeq(minY, commands[k].y) /\ NumLeq(commands[k].y, maxY)
    /\ Len(commands) = 0 =>
          /\ minX = Fin(0) /\ maxX = Fin(100 * Scale)
          /\ minY = Fin(0) /\ maxY = Fin(100 * Scale)

\* C3: finite envelope, as claimed.  After parseGcode the four bounds are
\* finite numbers, never Infinity, -Infinity or NaN.
C3_EnvelopeFinite ==
    IsFinite(minX) /\ IsFinite(maxX) /\ IsFinite(minY) /\ IsFinite(maxY)

\* the command word of the code part is the rapid-move token G0 or the
\* linear-move token G1: the letter G and a number that is exactly 0 or 1
IsMoveCommand(code) ==
    \E p \in 1..(Len(code) - 1) :
        /\ Upper(code[p]) = "G"
        /\ Run(code, p + 1, Digits) \in {<<"0">>, <<"1">>}

\* a line that is no comment and whose command is neither G0 nor G1
Unrecognized(raw) == CodePart(raw) # <<>> /\ ~IsMoveCommand(CodePart(raw))

\* C4: unrecognized lines are ignored, as claimed.  A non-comment line whose
\* command is neither G0 nor G1 emits no command and changes nothing: the
\* commands, the envelope and the per-kind counts are those of the text with
\* that line left empty.
C4_UnrecognizedIgnored ==
    \A n \in 1..Len(gcodeInput) :
        Unrecognized(gcodeInput[n]) =>
            LET r == ParseText([gcodeInput EXCEPT ![n] = <<>>])
            IN  /\ commands = r.commands
                /\ <<minX, maxX, minY, maxY>> = <<r.minX, r.maxX, r.minY, r.maxY>>
                /\ <<statG0, statG1>> = <<r.g0Count, r.g1Count>>

\* the parser recognizes a rapid-move or a linear-move token on the line
Recognized(raw) == g0Match(CodePart(raw)) \/ g1Match(CodePart(raw))

RecognizedLines == {n \in 1..Len(gcodeInput) : Recognized(gcodeInput[n])}

PlaybackState ==
    <<currentIndex, toolX, toolY, feedRate, isRunning, isPaused, pathHistory,
      pending>>

\* the history entry of a command
Waypoint(cmd) == [x |-> cmd.x, y |-> cmd.y, type |-> cmd.type]

\* the start entry followed by the waypoints of the first n commands
HistoryOf(n) == <<StartEntry>> \o [k \in 1..n |-> Waypoint(commands[k])]

\* C6: reset postcondition.  After reset() the index is 0, the tool is at
\* the origin, the feed rate is 0, running and paused are false, the history
\* is the start entry alone and no tick is pending.
C6_ResetPostcondition ==
    resets > 0 =>
        /\ currentIndex = 0
        /\ toolX = Fin(0) /\ toolY = Fin(0)
        /\ feedRate = Fin(0)
        /\ ~isRunning /\ ~isPaused
        /\ pathHistory = <<StartEntry>>
        /\ pending = {}

\* C6 witness: reset() has just run on an engine that had been started
C6_Witness == resets = 1 /\ animationId # 0 /\ Len(commands) > 0

\* C7: idempotent reset.  A reset() that follows a reset() leaves
\* PlaybackState as the first one left it.
C7_ResetIdempotent == [][resets' = 2 => PlaybackState' = PlaybackState]_vars

\* C7 witness: two resets in a row on an engine that had been started
C7_Witness == resets = 2 /\ animationId # 0 /\ Len(commands) > 0

\* a step within a run: a tick, a pause, a resume or a speed change, none of
\* which resets the engine
RunStep ==
    \/ Frame
    \/ TogglePause
    \/ ChangeSpeed
    \/ isPaused /\ StartSimulation

\* C8 as claimed: no state has commandIndex equal to the command count while
\* running is true, and none is Complete with commandIndex below the count.
C8_CompleteExactlyAtCount ==
    /\ currentIndex = Len(commands) => ~isRunning
    /\ status = "Complete" => currentIndex = Len(commands)

\* C8 as amended: commandIndex never decreases within a run; Complete implies
\* commandIndex = count, running false and no tick pending; commandIndex
\* reaches the count with running still true and one tick pending, and that
\* tick sets running false and the state Complete, changing nothing else.
C8_StepMonotonicCompletion ==
    /\ [](status = "Complete" =>
            /\ currentIndex = Len(commands)
            /\ ~isRunning /\ ~isPaused
            /\ pending = {})
    /\ [](isRunning /\ currentIndex = Len(commands) => pending # {})
    /\ [][RunStep => currentIndex' >= currentIndex]_vars
    /\ [][isRunning /\ currentIndex = Len(commands) /\ Frame =>
            /\ status' = "Complete"
            /\ ~isRunning'
            /\ pending' = {}
            /\ <<currentIndex, toolX, toolY, feedRate, isPaused, pathHistory>>'
                 = <<currentIndex, toolX, toolY, feedRate, isPaused, pathHistory>>
         ]_vars

\* C8 witness: a run over two commands or more has completed
C8_Witness ==
    /\ status = "Complete"
    /\ currentIndex = Len(commands)
    /\ Len(commands) >= 2

\* C9: playback determinism.  A run that has reached Complete has the
\* history made of the start entry and the waypoint of every command in list
\* order, whatever the speed, and the tool is exactly at the last command.
C9_PlaybackDeterminism ==
    status = "Complete" =>
        /\ pathHistory = HistoryOf(Len(commands))
        /\ toolX = commands[Len(commands)].x
        /\ toolY = commands[Len(commands)].y

\* C9 witness: a run over two commands or more that interpolated on its way
\* has completed away from the origin
C9_Witness ==
    /\ status = "Complete"
    /\ Len(commands) >= 2
    /\ <<toolX, toolY>> # <<Fin(0), Fin(0)>>

\* C10: history invariant.  pathHistory is the start entry followed by the
\* waypoints of commands[0 .. currentIndex-1]; within a run a step leaves it
\* alone or appends one entry to it.
C10_HistoryInvariant ==
    /\ [](pathHistory = HistoryOf(currentIndex))
    /\ [][RunStep =>
            \/ pathHistory' = pathHistory
            \/ /\ Len(pathHistory') = Len(pathHistory) + 1
               /\ SubSeq(pathHistory', 1, Len(pathHistory)) = pathHistory
         ]_vars

\* C10 witness: the tool is at an interpolated position between two
\* committed waypoints, and the history holds the committed ones only
C10_Witness ==
    /\ isRunning
    /\ currentIndex >= 1
    /\ currentIndex < Len(commands)
    /\ IsFinite(toolX)
    /\ \A k \in 1..Len(commands) : <<toolX, toolY>> # <<commands[k].x, commands[k].y>>
    /\ Len(pathHistory) = currentIndex + 1

\* the pose a pause freezes: index, tool position, feed rate and history
FrozenPose == <<currentIndex, toolX, toolY, feedRate, pathHistory>>

\* the pose of the simulator s
PoseOf(s) == <<s.currentIndex, s.toolX, s.toolY, s.feedRate, s.pathHistory>>

\* a resume: the pause button or the simulate button while paused
Resume == isPaused /\ (TogglePause \/ StartSimulation)

PlaybackOf(s) ==
    <<s.currentIndex, s.toolX, s.toolY, s.feedRate, s.isRunning, s.isPaused,
      s.pathHistory, s.pending>>

\* C12: single pending tick and immediate cancellation.  At most one tick is
\* pending, and it is the one animationId names; no tick is pending while
\* running is false, so that a step which is not a start, a resume, a reset
\* or a reload leaves PlaybackState alone then; and animate() called while
\* running is false leaves PlaybackState as it is.
C12_SinglePendingTick ==
    /\ [](Cardinality(pending) <= 1 /\ pending \subseteq {animationId})
    /\ [](~isRunning => pending = {})
    /\ [][~isRunning /\ ~(StartSimulation \/ TogglePause \/ Reset \/ InputPlay)
            => PlaybackState' = PlaybackState]_vars
    /\ [](~isRunning => PlaybackOf(animate(Self)) = PlaybackState)

\* C12 witness: a tick was scheduled and is no longer pending although the
\* run is unfinished: the pause cancelled it
C12_Witness ==
    /\ isPaused
    /\ animationId # 0
    /\ animationId \notin pending
    /\ currentIndex < Len(commands)

\* C13: reload performs reset.  When parseGcode has installed a command
\* list on an engine that was Running or Paused, the engine is in the Idle
\* reset state: index 0, tool at the origin, history the start entry alone,
\* running and paused false, no tick pending.  And whenever a tick is
\* pending, the index is within the installed command list and the history
\* is made of the waypoints of that list: no step runs on an index or a
\* pose left from a previous list.
C13_ReloadPerformsReset ==
    /\ (interrupted =>
            /\ currentIndex = 0
            /\ toolX = Fin(0) /\ toolY = Fin(0)
            /\ pathHistory = <<StartEntry>>
            /\ ~isRunning /\ ~isPaused
            /\ pending = {}
            /\ status = "Ready"
            /\ commands = Parsed[gcodeInput].commands)
    /\ (pending # {} =>
            /\ currentIndex <= Len(commands)
            /\ commands = Parsed[gcodeInput].commands
            /\ pathHistory = HistoryOf(currentIndex))

\* C13 witness: a reload has just interrupted a run and installed a list of
\* commands
C13_Witness ==
    /\ interrupted
    /\ animationId # 0
    /\ Len(commands) > 0

\* C14: invalid simulation requests are no-ops.  startSimulation on an
\* engine whose command list is empty, and is empty again once the text has
\* been parsed, leaves the engine in the Idle reset state, running false and
\* no tick pending, neither Running nor Complete; togglePause on an engine
\* neither running nor paused changes no field of PlaybackState, nor the
\* status, and schedules no tick.
C14_InvalidRequestsNoOps ==
    /\ [][Len(commands) = 0 /\ StartSimulation /\ Len(commands') = 0 =>
            /\ currentIndex' = 0
            /\ toolX' = Fin(0) /\ toolY' = Fin(0)
            /\ feedRate' = Fin(0)
            /\ pathHistory' = <<StartEntry>>
            /\ ~isRunning' /\ ~isPaused'
            /\ pending' = {}
            /\ status' = "Ready"]_vars
    /\ [][~isRunning /\ ~isPaused /\ TogglePause =>
            /\ PlaybackState' = PlaybackState
            /\ status' = status
            /\ animationId' = animationId
            /\ pending' = {}]_vars
    /\ [](Len(commands) = 0 => status = "Ready" /\ ~isRunning /\ pending = {})

\* C14 witness: startSimulation has just been invoked on a text without
\* commands
C14_Witness ==
    /\ ignored = "start"
    /\ Len(commands) = 0
    /\ Len(Parsed[gcodeInput].commands) = 0

\* the distance the tool has moved in the step, to the unit below
Moved ==
    Isqrt((toolX'.v - toolX.v) * (toolX'.v - toolX.v)
          + (toolY'.v - toolY.v) * (toolY'.v - toolY.v))

\* a and b differ by the rounding of the fixed-point arithmetic at most
Near(a, b) == a - b <= 2 /\ b - a <= 2

\* v lies between a and b, whichever is the larger
Between(v, a, b) == (a <= v /\ v <= b) \/ (b <= v /\ v <= a)

\* the tool has moved toward the target cmd by the step, without passing it
MovedByStep(cmd) ==
    /\ IsFinite(toolX) /\ IsFinite(toolY)
    /\ IsFinite(toolX') /\ IsFinite(toolY')
    /\ IsFinite(cmd.x) /\ IsFinite(cmd.y)
    /\ Near(Moved, stepSize(Self, cmd))
    /\ Between(toolX'.v, toolX.v, cmd.x.v)
    /\ Between(toolY'.v, toolY.v, cmd.y.v)

\* the step rule on the target cmd
StepRule(cmd) ==
    IF Reached(Self, cmd)
    THEN /\ toolX' = cmd.x /\ toolY' = cmd.y
         /\ pathHistory' = Append(pathHistory, Waypoint(cmd))
         /\ currentIndex' = currentIndex + 1
         /\ feedRate' = cmd.feedRate
    ELSE /\ currentIndex' = currentIndex
         /\ pathHistory' = pathHistory
         /\ feedRate' = feedRate
         /\ MovedByStep(cmd)

\* C15: step rule.  A tick while Running with commandIndex below the count
\* takes the step size (speed/25) * (3 if the target is a rapid, else 1) at
\* the speed of that moment; when the distance to the target is below it,
\* the tool is set on the target, one history entry is appended, the index
\* grows by one and the feed rate becomes the command's; otherwise index,
\* history and feed rate are unchanged and the tool moves toward the target
\* by the step size along the straight line, without passing the target.
C15_StepRule ==
    [][isRunning /\ currentIndex < Len(commands) /\ Frame =>
            StepRule(commands[currentIndex + 1])]_vars

\* the states of the engine as read off its fields: Idle is neither running
\* nor paused at index 0, Complete neither running nor paused at index =
\* count
Idle == ~isRunning /\ ~isPaused /\ currentIndex = 0
Complete == ~isRunning /\ ~isPaused /\ currentIndex = Len(commands)

\* Complete on a list that has commands
Finished == Complete /\ Len(commands) > 0

\* exactly one of the conditions ps holds
ExactlyOne(ps) == Cardinality({k \in 1..Len(ps) : ps[k]}) = 1

\* C24 as claimed: running and paused are never both true; the engine is in
\* exactly one of Idle, Running, Paused and Complete; a step that enters
\* Paused, and one that enters Complete, starts from Running.
C24_FourStates ==
    /\ [](~(isRunning /\ isPaused))
    /\ [](ExactlyOne(<<Idle, isRunning, isPaused, Complete>>))
    /\ [][isPaused' /\ ~isPaused => isRunning]_vars
    /\ [][/\ ~isRunning' /\ ~isPaused' /\ currentIndex' = Len(commands')
          /\ ~Complete
          => isRunning]_vars

\* C24 as amended: running and paused are never both true; the engine is in
\* exactly one of Idle, Running, Paused and Complete on a list that has
\* commands (on an empty list index 0 is the count, and the engine is Idle);
\* a step that enters Paused starts from Running; a step that enters
\* Complete is a tick from Running, or the resume of an engine paused at
\* index = count, whose call of animate() completes the run at once.
C24_StateMachine ==
    /\ [](~(isRunning /\ isPaused))
    /\ [](ExactlyOne(<<Idle, isRunning, isPaused, Finished>>))
    /\ [][isPaused' /\ ~isPaused => isRunning]_vars
    /\ [][/\ ~isRunning' /\ ~isPaused' /\ currentIndex' = Len(commands')
          /\ Len(commands') > 0
          /\ ~Finished
          => \/ isRunning /\ Frame
             \/ /\ isPaused /\ currentIndex = Len(commands)
                /\ (TogglePause \/ StartSimulation)]_vars

\* C24 witness: a run was paused on the tick before its completion, at
\* index = count: the resume of this engine completes the run
C24_Witness ==
    /\ isPaused /\ ~isRunning
    /\ Len(commands) > 0
    /\ currentIndex = Len(commands)
    /\ status = "Paused"

\* the last committed waypoint: the last entry of the history
LastWaypoint == pathHistory[Len(pathHistory)]

\* the interpolation toward the target cmd is well-defined: the distance is
\* a positive number, and the tool the step leaves is a finite point between
\* the last committed waypoint and the target
WellDefined(cmd) ==
    /\ Measurable(Self, cmd)
    /\ DistanceSq(Self, cmd) > 0
    /\ IsFinite(toolX') /\ IsFinite(toolY')
    /\ IsFinite(LastWaypoint.x) /\ IsFinite(LastWaypoint.y)
    /\ Between(toolX'.v, LastWaypoint.x.v, cmd.x.v)
    /\ Between(toolY'.v, LastWaypoint.y.v, cmd.y.v)

\* C25: interpolation is well-defined.  Whenever a tick while Running with
\* commandIndex below the count takes the interpolation branch (the distance
\* is not below the step size), the distance to the target is strictly
\* positive, so that the ratio is no division by zero, and the tool stays a
\* finite point on the segment between the last committed waypoint and the
\* target, whatever the speed setting.
C25_InterpolationDefined ==
    [][/\ isRunning /\ currentIndex < Len(commands) /\ Frame
       /\ ~Reached(Self, commands[currentIndex + 1])
       => WellDefined(commands[currentIndex + 1])]_vars

Probes ==
    {<<Rat(0, 1), Rat(0, 1)>>,
     <<Rat(5, 1), Rat(0 - 3, 2)>>,
     <<Rat(0 - 7, 4), Rat(100, 1)>>}

\* H - (y * scale + offsetY)
Flipped(y) ==
    RSub(Rat(canvasHeight, 1), RAdd(RMul(y, scale), offsetY))

\* C16: round-trip transform.  Whatever the envelope and the canvas size
\* the view was computed from, canvasToWorld(worldToCanvas(x, y)) is (x, y)
\* for every point, and the canvas y of worldToCanvas is
\* H - (y * scale + offsetY).
C16_RoundTrip ==
    \A p \in Probes :
        /\ canvasToWorld(Self, worldToCanvas(Self, p)) = p
        /\ worldToCanvas(Self, p)[2] = Flipped(p[2])

\* the transform calculateView writes
Transform == <<scale, offsetX, offsetY>>

\* the envelope, the canvas size and the transform, before and after a step
View ==
    [minX |-> minX, maxX |-> maxX, minY |-> minY, maxY |-> maxY,
     canvasWidth |-> canvasWidth, canvasHeight |-> canvasHeight,
     scale |-> scale, offsetX |-> offsetX, offsetY |-> offsetY]

ViewNext ==
    [minX |-> minX', maxX |-> maxX', minY |-> minY', maxY |-> maxY',
     canvasWidth |-> canvasWidth', canvasHeight |-> canvasHeight',
     scale |-> scale', offsetX |-> offsetX', offsetY |-> offsetY']

\* the dimensions of the envelope: maxX - minX and maxY - minY
EnvelopeWidth(v) == RSub(ToRat(v.maxX), ToRat(v.minX))
EnvelopeHeight(v) == RSub(ToRat(v.maxY), ToRat(v.minY))

\* min((W - 2p)/bboxW, (H - 2p)/bboxH) * 0.9
FittingScale(v) ==
    RMul(RMin(RDiv(Rat(v.canvasWidth - 2 * padding, 1), EnvelopeWidth(v)),
              RDiv(Rat(v.canvasHeight - 2 * padding, 1), EnvelopeHeight(v))),
         Rat(9, 10))

\* the canvas x and the height above the canvas bottom of a world point
CanvasX(v, x) == RAdd(RMul(ToRat(x), v.scale), v.offsetX)
CanvasUp(v, y) == RAdd(RMul(ToRat(y), v.scale), v.offsetY)

\* the envelope sits in the middle of the canvas: its two sides are as far
\* from the middle of the canvas, in each direction
Centred(v) ==
    /\ RAdd(CanvasX(v, v.minX), CanvasX(v, v.maxX)) = Rat(v.canvasWidth, 1)
    /\ RAdd(CanvasUp(v, v.minY), CanvasUp(v, v.maxY)) = Rat(v.canvasHeight, 1)

\* the transform is the one calculateView computes from the envelope and
\* the canvas size
Fits(v) ==
    /\ v.scale = FittingScale(v)
    /\ v.offsetX = centreOffset(v.canvasWidth, EnvelopeWidth(v),
                                ToRat(v.minX), v.scale)
    /\ v.offsetY = centreOffset(v.canvasHeight, EnvelopeHeight(v),
                                ToRat(v.minY), v.scale)
    /\ (v.scale.k = "fin" /\ v.offsetX.k = "fin" /\ v.offsetY.k = "fin"
            => Centred(v))

Converted == dxfReader.readyState = "DONE"

\* the trimmed lines of the file
FileLines == TrimAll(dxfReader.result)

\* the lines of the file that name an entity of one of the names
StartsOf(names) == {i \in 1..Len(FileLines) : FileLines[i] \in names}

\* the attribute stream of a polyline from line i on, as pairs of a group
\* code and its value: it ends before the group 0 of the next entity, the
\* VERTEX entities of a POLYLINE being part of it
RECURSIVE StreamOf(_, _)
StreamOf(lines, i) ==
    IF i + 1 > Len(lines) THEN <<>>
    ELSE IF lines[i] = Tag.Zero /\ lines[i + 1] # Tag.VERTEX THEN <<>>
    ELSE <<<<lines[i], lines[i + 1]>>>> \o StreamOf(lines, i + 2)

\* the vertices a stream lists from its k-th group on: each code-10 X
\* followed by a code-20 Y
RECURSIVE ListedVertices(_, _)
ListedVertices(g, k) ==
    IF k >= Len(g) THEN <<>>
    ELSE IF g[k][1] = <<"1", "0">> /\ g[k + 1][1] = <<"2", "0">>
    THEN <<[x |-> ParseFloat(g[k][2]), y |-> ParseFloat(g[k + 1][2])]>>
         \o ListedVertices(g, k + 2)
    ELSE ListedVertices(g, k + 1)

\* bit 0 of the code-70 flag of a stream is set: the flag is an odd integer
FlagClosed(g) ==
    \E k \in 1..Len(g) :
        /\ g[k][1] = <<"7", "0">>
        /\ g[k][2] # <<>>
        /\ g[k][2][Len(g[k][2])] \in {"1", "3", "5", "7", "9"}

\* the entity e is the polyline the stream g lists
PolylineAsListed(e, g) ==
    /\ e.points = ListedVertices(g, 1)
    /\ e.closed = FlagClosed(g)

\* C20 as claimed: for every polyline of a converted file, the points
\* parseDxfPolyline produces are exactly the vertices its attribute stream
\* lists, in file order, whatever their coordinates, and closed is true
\* exactly when bit 0 of the code-70 flag is set.
C20_PolylineAsListed ==
    Converted =>
        \A i \in StartsOf({Tag.LWPOLYLINE, Tag.POLYLINE}) :
            PolylineAsListed(parseDxfPolyline(FileLines, i),
                             StreamOf(FileLines, i + 1))

\* the indices of the lines of text equal to line, from index k on, in order
RECURSIVE LinesAt(_, _, _)
LinesAt(text, line, k) ==
    IF k > Len(text) THEN <<>>
    ELSE IF text[k] = line THEN <<k>> \o LinesAt(text, line, k + 1)
    ELSE LinesAt(text, line, k + 1)

\* the entities of a type the file holds, in file order
IsArc(e) == e.type = "ARC"
IsCircle(e) == e.type = "CIRCLE"
ArcsOfFile == SelectSeq(EntitiesOf(dxfReader.result), IsArc)
CirclesOfFile == SelectSeq(EntitiesOf(dxfReader.result), IsCircle)

\* the angle, in degrees, an arc from startAngle to endAngle sweeps in the
\* increasing direction: the one of 0 <= sweep < 360 that leads to endAngle
SweepUp(e) == Fin((e.endAngle.v - e.startAngle.v) % (360 * Scale))

\* the angle of the j-th of segments equal steps of an arc that sweeps
\* sweep degrees from its start angle
StepAngle(e, sweep, j) == Fin(e.startAngle.v * arcSegments + j * sweep.v)

\* the linear move to the point of the arc or circle e at an angle
MoveAt(e, angle) ==
    LinearTo(Polar(e.cx, e.r, MathCos(angle)),
             Polar(e.cy, e.r, MathSin(angle)))

\* the rapid to the point of the arc or circle e at an angle
RapidAt(e, angle) ==
    RapidTo(Polar(e.cx, e.r, MathCos(angle)),
            Polar(e.cy, e.r, MathSin(angle)))

\* the line is a linear move: it begins with 'G1 X'
IsLinearMove(line) ==
    Len(line) >= Len(Text.LinearX)
    /\ SubSeq(line, 1, Len(Text.LinearX)) = Text.LinearX

\* the lines of text after line k are the pen-up line, a rapid to the start
\* of the arc e, the pen-down line and exactly arcSegments linear moves, at
\* equal steps of an increasing sweep of sweep degrees
ArcSwept(text, k, e, sweep) ==
    /\ k + 4 + arcSegments <= Len(text)
    /\ text[k + 1] = PenUp
    /\ text[k + 2] = RapidAt(e, StepAngle(e, sweep, 0))
    /\ text[k + 3] = PenDown
    /\ \A j \in 1..arcSegments :
          text[k + 3 + j] = MoveAt(e, StepAngle(e, sweep, j))
    /\ ~IsLinearMove(text[k + 4 + arcSegments])

\* the arcs es are compiled at the lines ks of text, each swept in the
\* increasing direction to its end angle
ArcsSweptUp(text, ks, es) ==
    /\ Len(ks) = Len(es)
    /\ \A n \in 1..Len(es) : ArcSwept(text, ks[n], es[n], SweepUp(es[n]))

\* C19 as claimed: every arc of a converted file, whatever start and end
\* angles parseDxfArc gave it (the defaults 0 and 360 included), is compiled
\* to a rapid to its start-angle point and exactly 18 linear moves at equal
\* angular steps that end at the end angle, the total sweep being in
\* [0, 360) degrees in the increasing direction.
C19_ArcSweptUp ==
    Converted => ArcsSweptUp(gcodeInput, LinesAt(gcodeInput, Text.Arc, 1),
                             ArcsOfFile)

\* line begins with the characters prefix
StartsWith(line, prefix) ==
    Len(line) >= Len(prefix) /\ SubSeq(line, 1, Len(prefix)) = prefix

\* the indices of the lines of text that begin with prefix, from k on
RECURSIVE LinesWith(_, _, _)
LinesWith(text, prefix, k) ==
    IF k > Len(text) THEN <<>>
    ELSE IF StartsWith(text[k], prefix)
    THEN <<k>> \o LinesWith(text, prefix, k + 1)
    ELSE LinesWith(text, prefix, k + 1)

\* the point parseGcode reads on a line: its X and Y fields
PointOn(line) ==
    <<ParseFloat(xMatch(CodePart(line))), ParseFloat(yMatch(CodePart(line)))>>

\* a + b, NaN when one of them is
SumOf(a, b) == IF IsFinite(a) /\ IsFinite(b) THEN Fin(a.v + b.v) ELSE NaN

\* the lines of text after line k are the pen-up line, a rapid to the
\* angle-0 point (cx + r, cy) of the circle e, the pen-down line and exactly
\* circleSegments linear moves at the angles 10, 20, ..., 360 degrees, the
\* last of them to the point of the rapid
CircleClosed(text, k, e) ==
    /\ k + 4 + circleSegments <= Len(text)
    /\ text[k + 1] = PenUp
    /\ text[k + 2] = RapidTo(Fine(SumOf(e.cx, e.r)), Fine(e.cy))
    /\ text[k + 3] = PenDown
    /\ \A j \in 1..circleSegments :
          /\ IsLinearMove(text[k + 3 + j])
          /\ text[k + 3 + j] = MoveAt(e, Fin(Degrees(10 * j)))
    /\ ~IsLinearMove(text[k + 4 + circleSegments])
    /\ PointOn(text[k + 3 + circleSegments]) = PointOn(text[k + 2])

\* the circles es are compiled at the lines ks of text
CirclesClosed(text, ks, es) ==
    /\ Len(ks) = Len(es)
    /\ \A n \in 1..Len(es) : CircleClosed(text, ks[n], es[n])

\* C18: every circle of a converted file is compiled to the pen-up line, one
\* rapid to its angle-0 point (cx + r, cy), the pen-down line and then
\* exactly 36 linear moves at the angles 10, 20, ..., 360 degrees, so that
\* the last linear point is the point of the rapid.
C18_CircleClosed ==
    Converted => CirclesClosed(gcodeInput,
                               LinesWith(gcodeInput, Text.CircleOpen, 1),
                               CirclesOfFile)

\* the groups of a LINE, CIRCLE or ARC named at line i: the pairs of a group
\* code and its value that follow the name, up to the group 0 of the next
\* entity or the end of the file; a group code the file ends on has no value
\* and is no group
RECURSIVE GroupsOf(_, _)
GroupsOf(lines, i) ==
    IF i + 1 > Len(lines) \/ lines[i] = Tag.Zero THEN <<>>
    ELSE <<<<lines[i], lines[i + 1]>>>> \o GroupsOf(lines, i + 2)

\* the value the groups g give to the code n, 0 when none of them has it
GroupValue(g, n) ==
    LET listed == {k \in 1..Len(g) : g[k][1] = IntText(n)}
    IN  IF listed = {} THEN Num(0)
        ELSE ParseFloat(g[CHOOSE k \in listed : \A j \in listed : j <= k][2])

\* the entity the spec has the parser produce for the name at line i
ZeroFilled(lines, i) ==
    LET g == GroupsOf(lines, i + 1)
    IN  CASE lines[i] = Tag.LINE ->
                 [type |-> "LINE", x1 |-> GroupValue(g, 10),
                  y1 |-> GroupValue(g, 20), x2 |-> GroupValue(g, 11),
                  y2 |-> GroupValue(g, 21)]
          [] lines[i] = Tag.CIRCLE ->
                 [type |-> "CIRCLE", cx |-> GroupValue(g, 10),
                  cy |-> GroupValue(g, 20), r |-> GroupValue(g, 40)]
          [] lines[i] = Tag.ARC ->
                 [type |-> "ARC", cx |-> GroupValue(g, 10),
                  cy |-> GroupValue(g, 20), r |-> GroupValue(g, 40),
                  startAngle |-> GroupValue(g, 50),
                  endAngle |-> GroupValue(g, 51)]

\* the entities of the lines from line i on, in file order
RECURSIVE ZeroFilledFrom(_, _)
ZeroFilledFrom(lines, i) ==
    IF i > Len(lines) THEN <<>>
    ELSE IF lines[i] \in {Tag.LINE, Tag.CIRCLE, Tag.ARC}
         THEN <<ZeroFilled(lines, i)>> \o ZeroFilledFrom(lines, i + 1)
         ELSE ZeroFilledFrom(lines, i + 1)

\* the file holds lines, circles and arcs only
SimpleFile == StartsOf({Tag.LWPOLYLINE, Tag.POLYLINE}) = {}

\* C21: a file of LINE, CIRCLE and ARC entities, some of them missing
\* groups or cut short by the end of the file, is read as the list of all
\* its entities in file order, each with the values of the groups it has and
\* 0 in every field whose group is missing
C21_MissingFieldsZero ==
    (Converted /\ SimpleFile)
        => EntitiesOf(dxfReader.result) = ZeroFilledFrom(FileLines, 1)

\* every G1 command of the list cs carries the feed rate of the generator
FeedFixed(cs) ==
    \A n \in 1..Len(cs) : cs[n].type = "G1" => cs[n].feedRate = Num(dxfFeedRate)

\* the point the parser carries forward to the n-th command of cs
CarriedTo(cs, n) ==
    IF n = 1 THEN <<Num(0), Num(0)>> ELSE <<cs[n - 1].x, cs[n - 1].y>>

\* the commands of the Z lines of text ('G0 Z5', the pen-up and the pen-down
\* lines) are rapids at the point carried forward to them
ZLinesCarry(text, cs) ==
    \A k \in 1..Len(text) :
        StartsWith(text[k], Text.LiftZ)
            => \E n \in 1..Len(cs) :
                  /\ cs[n].lineNumber = k
                  /\ cs[n].type = "G0"
                  /\ <<cs[n].x, cs[n].y>> = CarriedTo(cs, n)

\* C22: in the commands parsed from the text generated for a file, every
\* linear (G1) command carries the feed rate 400, and the Z lines give
\* commands at the carried-forward X and Y only
C22_FeedFixed ==
    Converted => FeedFixed(commands) /\ ZLinesCarry(gcodeInput, commands)

====
